---- MODULE Spec2Model ----
(***************************************************************************)
(* A model of the ETL core of the financial data pipeline:                 *)
(*   - FinancialPipeline.run_pipeline / _load_facts_batch /                *)
(*     _save_failed_records / run_full_pipeline  (specification Spec)      *)
(*   - DimensionLoader.upsert_account against the dim_account table        *)
(*     (specification SpecLoader)                                          *)
(* The relational store, the file system and the source files are the      *)
(* environment: every storage call and every file write either succeeds or *)
(* raises, and the choice is the environment's.                            *)
(***************************************************************************)
EXTENDS Integers, Sequences, FiniteSets, TLC

\* ------------------------------------------------------------------ bounds

\* number of records one extractor stream may yield
MaxRecords == 3
\* number of records each stream may yield when both sources are run
MaxRecordsAll == 1
\* settings.chunk_size as configured for the model (the flush threshold)
ChunkSize == 2
\* number of upsert_account calls one loader makes in SpecLoader
MaxCalls == 3
\* nesting depth of rollups inside a section of the hierarchical source file
MaxDepth == 2
\* number of transform_account calls made on one FinancialTransformer
MaxAccountCalls == 3
\* period records in a Rootfi document given to validate()
MaxPeriods == 2
\* questions chat_node starts on one thread of the agent
MaxQuestions == 2

\* ------------------------------------------------------------------ values

Sources == {"quickbooks", "rootfi"}
Modes == {"quickbooks", "rootfi", "all"}

\* A raw date string of a source file is text.  NoDate is a missing key, None
\* or the empty string; RawDateStr(d, t) is date text d alone, or d followed by
\* "T" and a time of day t.
NoDate == ""
RawDateStr(d, t) == IF t = "" THEN d ELSE d \o "T" \o t

\* the (period_start, period_end) pairs of the extracted records
RawPeriods ==
    { <<RawDateStr("2024-01-01", ""), RawDateStr("2024-01-31", "")>>,
      <<RawDateStr("2024-01-01", "00:00:00"), RawDateStr("2024-01-31", "00:00:00")>>,
      <<RawDateStr("n/a", ""), RawDateStr("2024-01-31", "")>>,
      <<RawDateStr("2024-01-01", ""), NoDate>> }

VARIABLES
    \* ---- FinancialPipeline
    mode,            \* the --source value: which run(s) are made
    cur,             \* source_name of the run in progress
    pc,              \* position in run_pipeline / run_full_pipeline
    exc,             \* the exception being propagated ("none" when none)
    pipeline_runs,   \* pipeline_runs table: source -> committed row
    facts,           \* fact_financials table, in insertion order
    dim_account,     \* account_ids that have a dim_account row (Spec)
    dim_source,      \* source names that have a dim_source row
    dim_date_loaded, \* dim_date has been populated
    account_cache,   \* dim_loader._account_cache of the run (its keys)
    source_cache,    \* dim_loader._source_cache of the run (its keys)
    failed_records,  \* self.failed_records
    batch,           \* local batch
    total_processed, \* local total_processed
    total_failed,    \* local total_failed
    export,          \* the failed-records CSV of this run
    results,         \* run_full_pipeline's results dict
    stats,           \* what run_pipeline returned
    run,             \* the PipelineRun object of the run, in memory
    \* ---- history of the run in progress (not read by the program)
    yielded,         \* records the extractor has yielded
    bad_ids,         \* ids of the yielded records whose transformation raised
    submitted,       \* batches handed to _load_facts_batch, in order
    flush_raised,    \* a _load_facts_batch call of this run raised
    row_raised,      \* a fact-row construction of this run raised
    load_excluded,   \* records left out of the insert by flushes that returned
    invoked,         \* the run_pipeline invocations so far, by source_name
    load_calls,      \* the _load_facts_batch calls of the run and their results
    \* ---- the command line (main.py)
    exit_code,       \* the exit status of `run`, NotExited while it runs
    \* ---- DimensionLoader against the store (SpecLoader)
    store,           \* dim_account rows [account_key, account_id, account_name]
    next_key,        \* next value of the account_key sequence
    loaders,         \* loader -> [cache, pc, call, tx, calls]
    returned,        \* history: what every upsert_account call returned
    \* ---- the extractors on one source file (SpecExtract)
    ex_src,          \* which extractor: "quickbooks" or "rootfi"
    rf_data,         \* RootfiExtractor.data: the period records of the file
    qb_data,         \* QuickBooksExtractor.data: Columns and Rows of the file
    ex_pc,           \* "validated" before extract() is consumed, "done" after
    ex_out,          \* the records extract() has yielded, in order
    ex_raised,       \* the generator ended by raising
    rf_file,         \* the JSON document at RootfiExtractor.source_path
    ex_error,        \* the message of the error validate() raised, "" if none
    \* ---- FinancialTransformer and CategoryMapper (SpecTransform)
    tr_cache,        \* transformer.account_cache (its keys)
    tr_calls,        \* history: the transform_account calls and their results
    tr_last,         \* history: the last call of a function without state
    \* ---- the agent graph on one thread (SpecAgent)
    ag_node,         \* the node the graph runs next ("idle": no graph is run)
    ag_state,        \* the FinancialAgentState of the thread
    ag_entered,      \* history: the nodes entered for the question in hand
    ag_questions     \* history: the questions chat_node has started

pipeVars == <<mode, cur, pc, exc, pipeline_runs, facts, dim_account, dim_source,
              dim_date_loaded, account_cache, source_cache, failed_records,
              batch, total_processed, total_failed, export, results, stats, run,
              yielded, bad_ids, submitted, flush_raised, row_raised,
              load_excluded, invoked, load_calls, exit_code>>
loaderVars == <<store, next_key, loaders, returned>>
extractVars == <<ex_src, rf_data, qb_data, ex_pc, ex_out, ex_raised, rf_file,
                 ex_error>>
transformVars == <<tr_cache, tr_calls, tr_last>>
agentVars == <<ag_node, ag_state, ag_entered, ag_questions>>
vars == <<pipeVars, loaderVars, extractVars, transformVars, agentVars>>

\* ------------------------------------------------------------ transformer

\* ---- Python string operations, on strings as sequences of characters

UpperLetters == "ABCDEFGHIJKLMNOPQRSTUVWXYZ"
LowerLetters == "abcdefghijklmnopqrstuvwxyz"

\* str.lower() on the upper-case letters, character by character
LowerOf ==
    [c \in {SubSeq(UpperLetters, i, i) : i \in 1..Len(UpperLetters)} |->
       LET i == CHOOSE i \in 1..Len(UpperLetters) : SubSeq(UpperLetters, i, i) = c
       IN SubSeq(LowerLetters, i, i)]

\* str.lower() on one character
LowerChar(c) == IF c \in DOMAIN LowerOf THEN LowerOf[c] ELSE c

\* str.lower()
RECURSIVE Lower(_)
Lower(s) ==
    IF s = "" THEN ""
    ELSE LowerChar(SubSeq(s, 1, 1)) \o Lower(SubSeq(s, 2, Len(s)))

\* str.strip(): leading and trailing blanks removed
RECURSIVE Strip(_)
Strip(s) ==
    IF s = "" THEN ""
    ELSE IF SubSeq(s, 1, 1) = " " THEN Strip(SubSeq(s, 2, Len(s)))
    ELSE IF SubSeq(s, Len(s), Len(s)) = " " THEN Strip(SubSeq(s, 1, Len(s) - 1))
    ELSE s

\* `kw in text` / re.search(re.escape(kw), text): kw occurs in text
Contains(text, kw) ==
    \E i \in 1..(Len(text) - Len(kw) + 1) : SubSeq(text, i, i + Len(kw) - 1) = kw

\* the decimal digits and the number a run of digits writes
Digits == "0123456789"
DigitOf == [c \in {SubSeq(Digits, i, i) : i \in 1..Len(Digits)} |->
              (CHOOSE i \in 1..Len(Digits) : SubSeq(Digits, i, i) = c) - 1]

IsDigits(t) == \A i \in 1..Len(t) : SubSeq(t, i, i) \in DOMAIN DigitOf

RECURSIVE DigitsValue(_)
DigitsValue(t) ==
    IF t = "" THEN 0
    ELSE 10 * DigitsValue(SubSeq(t, 1, Len(t) - 1)) + DigitOf[SubSeq(t, Len(t), Len(t))]

\* (mutant) the account type is left out of the key
GenerateAccountIdNoType(account_name, account_type, source_system) ==
    Lower(source_system \o ":" \o account_name)

\* FinancialTransformer._generate_account_id: the digest of the lowercased
\* "source:type:name" key, kept as the key itself (one digest per key)
GenerateAccountId(account_name, account_type, source_system) ==
    Lower(source_system \o ":" \o account_type \o ":" \o account_name)

\* ===================================================== CategoryMapper

\* CATEGORY_MAPPINGS, in declaration order (category_mapper.py lines 28-88)
CATEGORY_MAPPINGS ==
    <<[category |-> "Revenue",
        keywords |-> <<"revenue", "sales", "income", "professional income",
                      "business revenue", "service_division", "Sales & Revenue">>],
       [category |-> "Cost of Goods Sold",
        keywords |-> <<"cogs", "cost of goods", "material_cost", "material cost",
                      "shipping_expense", "shipping", "freight", "material_cost">>],
       [category |-> "Payroll & Compensation",
        keywords |-> <<"payroll", "salary", "salaries", "wages", "compensation",
                      "labor_expense", "labor expense", "employee", "gratuity",
                      "vacation payout", "contribution to fund", "incentive",
                      "hiring cost", "hiring", "alc">>],
       [category |-> "Marketing & Advertising",
        keywords |-> <<"marketing", "advertising", "advertisement", "promotion",
                      "marketing_expense">>],
       [category |-> "Technology & IT",
        keywords |-> <<"technology_expense", "technology", "software", "it",
                      "computer", "hosting", "cloud", "saas", "internet",
                      "network", "connectivity", "application service",
                      "secured storage">>],
       [category |-> "Professional Services",
        keywords |-> <<"professional_fee", "professional", "consulting", "legal",
                      "accounting", "consultant", "audit", "license",
                      "licensing", "fts", "payment to reviewers",
                      "processing fee">>],
       [category |-> "Travel & Entertainment",
        keywords |-> <<"travel_expense", "travel", "trip",
                      "entertainment_expense", "entertainment", "meal_expense",
                      "meal", "hotel", "flight", "personnel travel",
                      "accommodation", "transportation", "trip expense",
                      "trip insurance">>],
       [category |-> "Facilities & Operations",
        keywords |-> <<"facility_cost", "facility", "facilities", "rent", "lease",
                      "utilities", "utility_expense", "utility", "maintenance",
                      "building", "operations_expense", "operations", "cleaning",
                      "workplace equipment", "leasing">>],
       [category |-> "Office & Administrative",
        keywords |-> <<"office_expense", "office", "supplies", "stationery",
                      "communication_expense", "communication", "telephone",
                      "correspondence", "administrative", "admin",
                      "equipment_expense", "equipment", "import duty",
                      "additional expenses", "fees and memberships",
                      "membership", "insurance_expense", "insurance">>],
       [category |-> "Research & Development",
        keywords |-> <<"research", "development", "r&d", "rd_", "innovation",
                      "rd_labor_expense", "rd_labor", "rd_contractor_fee",
                      "rd_contractor", "rd_equipment", "rd_supplies",
                      "rd_expense">>],
       [category |-> "Depreciation & Amortization",
        keywords |-> <<"depreciation_expense", "depreciation", "amortization">>],
       [category |-> "Taxes & Fees",
        keywords |-> <<"tax_expense", "tax", "taxes", "duty", "banking_expense",
                      "bank", "financial institution charges", "fee for">>] >>

\* _compile_patterns: re.compile(re.escape(keyword), re.IGNORECASE); a pattern
\* is kept as its keyword in lower case, and searched in lower-case text
CompiledPatterns ==
    [i \in 1..Len(CATEGORY_MAPPINGS) |->
       [category |-> CATEGORY_MAPPINGS[i].category,
        patterns |-> [k \in 1..Len(CATEGORY_MAPPINGS[i].keywords) |->
                        Lower(CATEGORY_MAPPINGS[i].keywords[k])]]]

\* pattern.search(text), text in lower case
Search(pattern, text) == Contains(text, pattern)

\* one pass of the two nested loops (lines 140-143, 146-149) from category i
\* on: the first category with a pattern found in text, "" when there is none
RECURSIVE FirstCategory(_, _)
FirstCategory(text, i) ==
    IF i > Len(CompiledPatterns) THEN ""
    ELSE IF \E k \in 1..Len(CompiledPatterns[i].patterns) :
              Search(CompiledPatterns[i].patterns[k], text)
    THEN CompiledPatterns[i].category
    ELSE FirstCategory(text, i + 1)

\* (mutant) one search only, in the name with the hint
MapCategoryCombinedOnly(account_name, account_type, existing_category) ==
    IF account_type = "revenue" THEN "Revenue"
    ELSE IF account_type = "cogs" THEN "Cost of Goods Sold"
    ELSE LET c == FirstCategory(Lower(account_name \o " " \o existing_category), 1)
         IN IF c /= "" THEN c ELSE "Other Expenses"

\* CategoryMapper.map_category; existing_category "" stands for None
MapCategory(account_name, account_type, existing_category) ==
    IF account_type = "revenue" THEN "Revenue"
    ELSE IF account_type = "cogs" THEN "Cost of Goods Sold"
    ELSE
      LET search_text == Lower(account_name \o " " \o existing_category)
          by_name == FirstCategory(Lower(account_name), 1)
          by_text == FirstCategory(search_text, 1)
      IN IF by_name /= "" THEN by_name
         ELSE IF by_text /= "" THEN by_text
         ELSE "Other Expenses"

\* date_str.split("T")[0]
SplitT(date_str) ==
    LET ts == { i \in 1..Len(date_str) : SubSeq(date_str, i, i) = "T" }
    IN IF ts = {} THEN date_str
       ELSE SubSeq(date_str, 1, (CHOOSE i \in ts : \A j \in ts : i <= j) - 1)

\* days of month m of year y
DaysIn(y, m) ==
    IF m \in {4, 6, 9, 11} THEN 30
    ELSE IF m /= 2 THEN 31
    ELSE IF (y % 4 = 0 /\ y % 100 /= 0) \/ y % 400 = 0 THEN 29
    ELSE 28

\* datetime.strptime(text, "%Y-%m-%d"): four digits, one or two digits, one
\* or two digits, a date of the calendar; as the number YYYYMMDD, 0 when it
\* raises ValueError
Strptime(text) ==
    LET dashes == { i \in 1..Len(text) : SubSeq(text, i, i) = "-" }
        d1 == CHOOSE i \in dashes : \A j \in dashes : i <= j
        d2 == CHOOSE i \in dashes : \A j \in dashes : j <= i
        ys == SubSeq(text, 1, d1 - 1)
        ms == SubSeq(text, d1 + 1, d2 - 1)
        ds == SubSeq(text, d2 + 1, Len(text))
        y == DigitsValue(ys)
        m == DigitsValue(ms)
        d == DigitsValue(ds)
    IN IF /\ Cardinality(dashes) = 2
          /\ Len(ys) = 4 /\ IsDigits(ys)
          /\ Len(ms) \in {1, 2} /\ IsDigits(ms)
          /\ Len(ds) \in {1, 2} /\ IsDigits(ds)
          /\ m \in 1..12
          /\ d \in 1..DaysIn(y, m)
       THEN 10000 * y + 100 * m + d
       ELSE 0

\* (mutant) the date text is parsed whole
ParseDateWhole(date_str) ==
    IF date_str = NoDate THEN 0 ELSE Strptime(date_str)

\* FinancialTransformer._parse_date: the date as the number YYYYMMDD; 0
\* stands for None
ParseDate(date_str) ==
    IF date_str = NoDate THEN 0
    ELSE Strptime(SplitT(date_str))

\* transform_transaction raises ValueError
TransformRaises(raw) ==
    ParseDate(raw.period_start) = 0 \/ ParseDate(raw.period_end) = 0

\* transform_transaction's result when it does not raise (id is the record's
\* position in the stream, kept for the history; parent_account "" is None)
TransformTransaction(raw) ==
    [id |-> raw.id,
     account_id |-> GenerateAccountId(Strip(raw.account_name), raw.account_type,
                                      raw.source_system),
     account_name |-> Strip(raw.account_name),
     account_type |-> raw.account_type,
     account_category |-> MapCategory(Strip(raw.account_name), raw.account_type,
                                      raw.parent_account),
     parent_account |-> raw.parent_account,
     source_system |-> raw.source_system,
     period_start |-> ParseDate(raw.period_start),
     period_end |-> ParseDate(raw.period_end),
     amount |-> raw.amount,
     currency |-> raw.currency]

\* the records an extractor can yield as its n-th record for source src
RawAccounts == { [name |-> "Sales", type |-> "revenue", parent |-> "Income",
                  amount |-> 500],
                 [name |-> "Rent", type |-> "expense", parent |-> "",
                  amount |-> 20] }

RawRecords(src, n) ==
    { [id |-> n, account_name |-> a.name, account_type |-> a.type,
       parent_account |-> a.parent, amount |-> a.amount, currency |-> "USD",
       source_system |-> src, period_start |-> p[1], period_end |-> p[2]] :
      a \in RawAccounts, p \in RawPeriods }

\* the date texts among the texts used as period_start / period_end, with the
\* date each one writes (its date portion, the time of day left out); every
\* other text used is no date or is missing
DatePortion ==
    [t \in {"2024-01-01", "2024-01-01T00:00:00", "2024-01-01Tnoon"} |-> 20240101]
      @@ [t \in {"2024-01-31", "2024-01-31T00:00:00",
                  "2024-01-31T23:59:59.000Z"} |-> 20240131]
      @@ [t \in {"2024-02-29"} |-> 20240229]
      @@ [t \in {"2024-2-1"} |-> 20240201]

\* a record whose period_start or period_end is not a date (history only)
UnparsablePeriod(raw) ==
    raw.period_start \notin DOMAIN DatePortion
      \/ raw.period_end \notin DOMAIN DatePortion

\* the failed_record dict of run_pipeline's per-record handler
FailedRecord(source_name, raw, error_type) ==
    [source_system |-> source_name, id |-> raw.id,
     account_name |-> raw.account_name, account_type |-> raw.account_type,
     period_start |-> raw.period_start, period_end |-> raw.period_end,
     error_type |-> error_type]

\* --------------------------------------------------------- pipeline store

NoRow == [status |-> "none", records_processed |-> 0, records_failed |-> 0,
          error_message |-> "none"]

\* a run's outcome as run_full_pipeline keeps it: nothing yet, the stats
\* dict run_pipeline returned, or {"error": str(e)}
NoStats == [kind |-> "none", records_processed |-> 0, records_failed |-> 0,
            failed_records_csv |-> FALSE, error |-> "none"]

NoResults == [quickbooks |-> NoStats, rootfi |-> NoStats,
              total_records |-> 0, total_failed |-> 0]

\* the failed-records CSV of a run: not written, or its rows
NoExport == [written |-> FALSE, rows |-> <<>>]

\* what can happen to one record of a batch in _load_facts_batch
RowOutcomes == {"ok", "acct_raise", "src_raise"}

\* _load_facts_batch, the loop over the batch: record i of b resolves its
\* dimension keys (upsert_account unless cached, get_or_create_source unless
\* cached) and is appended to fact_objects, or one of the two raises and the
\* record is skipped.
RECURSIVE LoadFold(_, _, _, _)
LoadFold(b, outcomes, i, acc) ==
    IF i > Len(b) THEN acc
    ELSE
      LET r == b[i]
          needA == r.account_id \notin acc.acache
          aRaise == needA /\ outcomes[i] = "acct_raise"
          acc1 == IF needA /\ ~aRaise
                  THEN [acc EXCEPT !.acache = @ \cup {r.account_id},
                                   !.dacc = @ \cup {r.account_id}]
                  ELSE acc
          needS == ~aRaise /\ r.source_system \notin acc1.scache
          sRaise == needS /\ outcomes[i] = "src_raise"
          acc2 == IF needS /\ ~sRaise
                  THEN [acc1 EXCEPT !.scache = @ \cup {r.source_system},
                                    !.dsrc = @ \cup {r.source_system}]
                  ELSE acc1
          acc3 == IF aRaise \/ sRaise
                  THEN [acc2 EXCEPT !.raised = TRUE,
                                    !.skipped = @ \cup {r.id}]
                  ELSE [acc2 EXCEPT !.built = Append(@, r)]
      IN LoadFold(b, outcomes, i + 1, acc3)

\* fact_objects and the dimension state after the loop of _load_facts_batch
BuildFacts(b, outcomes) ==
    LoadFold(b, outcomes, 1,
             [built |-> <<>>, acache |-> account_cache, scache |-> source_cache,
              dacc |-> dim_account, dsrc |-> dim_source, raised |-> FALSE,
              skipped |-> {}])

\* the ids of a sequence of records
RECURSIVE Ids(_)
Ids(s) == IF s = <<>> THEN <<>> ELSE <<s[1].id>> \o Ids(Tail(s))

\* how many records the stream of the run in progress may yield
RecordLimit == IF mode = "all" THEN MaxRecordsAll ELSE MaxRecords

\* the `run` command has not ended
NotExited == -1

\* the PipelineRun object before run_pipeline builds it
NoRun == [attached |-> FALSE, row |-> NoRow]

\* db_session.commit() that succeeds, as far as the run's row goes: the
\* object's fields are written if the object is in the session
CommitRun(r) ==
    IF r.attached THEN [pipeline_runs EXCEPT ![cur] = r.row] ELSE pipeline_runs

\* the locals and the history of a run, before the run starts
RunLocalsInit ==
    /\ exc = "none"
    /\ account_cache = {}
    /\ source_cache = {}
    /\ batch = <<>>
    /\ total_processed = 0
    /\ total_failed = 0
    /\ export = NoExport
    /\ stats = NoStats
    /\ run = NoRun
    /\ yielded = 0
    /\ bad_ids = {}
    /\ submitted = <<>>
    /\ flush_raised = FALSE
    /\ row_raised = FALSE
    /\ load_excluded = 0
    /\ load_calls = <<>>

PipelineInit ==
    /\ mode \in Modes
    /\ cur = IF mode = "all" THEN "quickbooks" ELSE mode
    /\ pc = "idle"
    /\ pipeline_runs = [s \in Sources |-> NoRow]
    /\ facts = <<>>
    /\ dim_account = {}
    /\ dim_source = {}
    /\ dim_date_loaded = FALSE
    /\ failed_records = <<>>
    /\ results = NoResults
    /\ invoked = <<>>
    /\ exit_code = NotExited
    /\ RunLocalsInit

\* ------------------------------------------------------- run_pipeline

\* lines 169-186: new session, failed_records reset, the PipelineRun row
\* added and committed
BeginRun ==
    /\ pc = "idle"
    /\ failed_records' = <<>>
    /\ invoked' = Append(invoked, cur)
    /\ \E ok \in BOOLEAN :
         LET r == [attached |-> ok, row |-> [NoRow EXCEPT !.status = "started"]]
         IN /\ run' = r
            /\ pipeline_runs' = IF ok THEN CommitRun(r) ELSE pipeline_runs
            /\ pc' = IF ok THEN "init_dates" ELSE "handler"
            /\ exc' = IF ok THEN "none" ELSE "StorageError"
    /\ UNCHANGED <<mode, cur, facts, dim_account, dim_source, dim_date_loaded,
                   account_cache, source_cache, batch, total_processed,
                   total_failed, export, results, stats, yielded, bad_ids,
                   submitted, flush_raised, row_raised, load_excluded>>
    /\ UNCHANGED <<loaderVars, extractVars, transformVars, agentVars>>
    /\ UNCHANGED <<load_calls, exit_code>>

\* lines 189-190: _initialize_date_dimension, then the run's DimensionLoader
InitializeDateDimension ==
    /\ pc = "init_dates"
    /\ \E ok \in BOOLEAN :
         /\ dim_date_loaded' = (dim_date_loaded \/ ok)
         /\ pc' = IF ok THEN "validate" ELSE "handler"
         /\ exc' = IF ok THEN "none" ELSE "StorageError"
    /\ account_cache' = {}
    /\ source_cache' = {}
    /\ UNCHANGED <<mode, cur, pipeline_runs, facts, dim_account, dim_source,
                   failed_records, batch, total_processed, total_failed, export,
                   results, stats, run, yielded, bad_ids, submitted,
                   flush_raised, row_raised, load_excluded, invoked>>
    /\ UNCHANGED <<loaderVars, extractVars, transformVars, agentVars>>
    /\ UNCHANGED <<load_calls, exit_code>>

\* lines 193-196: extractor.validate() returns True or raises
Validate ==
    /\ pc = "validate"
    /\ \E valid \in BOOLEAN :
         /\ pc' = IF valid THEN "extract" ELSE "handler"
         /\ exc' = IF valid THEN "none" ELSE "ValidationError"
    /\ batch' = <<>>
    /\ total_processed' = 0
    /\ total_failed' = 0
    /\ UNCHANGED <<mode, cur, pipeline_runs, facts, dim_account, dim_source,
                   dim_date_loaded, account_cache, source_cache, failed_records,
                   export, results, stats, run, yielded, bad_ids, submitted,
                   flush_raised, row_raised, load_excluded, invoked>>
    /\ UNCHANGED <<loaderVars, extractVars, transformVars, agentVars>>
    /\ UNCHANGED <<load_calls, exit_code>>

\* (mutant) a record whose row construction raises empties fact_objects
LoadFactsBatchAllOrNone(b, outcomes, bulk_ok) ==
    LET a == BuildFacts(b, outcomes)
        built == IF a.raised THEN <<>> ELSE a.built
        raises == built /= <<>> /\ ~bulk_ok
    IN [raises |-> raises,
        loaded |-> Len(built),
        facts |-> IF raises THEN facts ELSE facts \o built,
        acache |-> a.acache, scache |-> a.scache,
        dacc |-> a.dacc, dsrc |-> a.dsrc,
        row_raised |-> a.raised,
        skipped |-> a.skipped]

\* _load_facts_batch (lines 62-123) on batch b: the loop, then
\* bulk_save_objects + commit when fact_objects is not empty.  The insert and
\* its commit are one transaction: all of fact_objects is inserted, or the
\* call raises and none is.
LoadFactsBatch(b, outcomes, bulk_ok) ==
    LET a == BuildFacts(b, outcomes)
        raises == a.built /= <<>> /\ ~bulk_ok
    IN [raises |-> raises,
        loaded |-> Len(a.built),
        facts |-> IF raises THEN facts ELSE facts \o a.built,
        acache |-> a.acache, scache |-> a.scache,
        dacc |-> a.dacc, dsrc |-> a.dsrc,
        row_raised |-> a.raised,
        skipped |-> a.skipped]

\* what a _load_facts_batch call leaves in the store and in the loader
StoreAfterLoad(b, res) ==
    /\ facts' = res.facts
    /\ dim_account' = res.dacc
    /\ dim_source' = res.dsrc
    /\ account_cache' = res.acache
    /\ source_cache' = res.scache
    /\ submitted' = Append(submitted, Ids(b))
    /\ flush_raised' = (flush_raised \/ res.raises)
    /\ row_raised' = (row_raised \/ res.row_raised)
    /\ load_excluded' = IF res.raises THEN load_excluded
                        ELSE load_excluded + (Len(b) - res.loaded)
    /\ load_calls' = Append(load_calls,
                            [batch |-> Ids(b), skipped |-> res.skipped,
                             raised |-> res.raises, loaded |-> res.loaded])

\* (mutant) the batch is not emptied after a flush
BatchKeptAfterFlush(b) == b

\* lines 206-209: the batch after a flush in the loop that returned
BatchAfterFlush(b) == <<>>

\* (mutant) the per-record handler counts the failure and drops the record
CaptureFailedNotKept(raw, error_type) ==
    /\ failed_records' = failed_records
    /\ total_failed' = total_failed + 1

\* lines 211-229: the per-record handler
CaptureFailed(raw, error_type) ==
    /\ failed_records' = Append(failed_records, FailedRecord(cur, raw, error_type))
    /\ total_failed' = total_failed + 1

\* line 201 on every record a stream can yield: the transformed record, or
\* raised
Transformed ==
    [raw \in UNION { RawRecords(src, n) : src \in Sources, n \in 1..MaxRecords } |->
       IF TransformRaises(raw) THEN [raised |-> TRUE, rec |-> raw]
       ELSE [raised |-> FALSE, rec |-> TransformTransaction(raw)]]

\* lines 198-229: one iteration of the loop over extractor.extract()
ProcessRecord ==
    /\ pc = "extract"
    /\ yielded < RecordLimit
    /\ \E raw \in RawRecords(cur, yielded + 1) :
         /\ yielded' = yielded + 1
         /\ bad_ids' = IF UnparsablePeriod(raw) THEN bad_ids \cup {raw.id}
                       ELSE bad_ids
         /\ IF Transformed[raw].raised
            THEN /\ CaptureFailed(raw, "ValueError")
                 /\ UNCHANGED <<batch, total_processed, facts, dim_account,
                                dim_source, account_cache, source_cache,
                                submitted, flush_raised, row_raised,
                                load_excluded, load_calls>>
            ELSE LET b == Append(batch, Transformed[raw].rec) IN
                 /\ IF Len(b) >= ChunkSize
                    THEN \E outcomes \in [1..Len(b) -> RowOutcomes],
                            bulk_ok \in BOOLEAN :
                           LET res == LoadFactsBatch(b, outcomes, bulk_ok) IN
                           /\ StoreAfterLoad(b, res)
                           /\ IF res.raises
                              THEN /\ CaptureFailed(raw, "StorageError")
                                   /\ batch' = b
                                   /\ UNCHANGED total_processed
                              ELSE /\ total_processed' = total_processed + res.loaded
                                   /\ total_failed' = total_failed + (Len(b) - res.loaded)
                                   /\ batch' = BatchAfterFlush(b)
                                   /\ UNCHANGED failed_records
                    ELSE /\ batch' = b
                         /\ UNCHANGED <<total_processed, total_failed,
                                        failed_records, facts, dim_account,
                                        dim_source, account_cache, source_cache,
                                        submitted, flush_raised, row_raised,
                                        load_excluded, load_calls>>
    /\ UNCHANGED <<mode, cur, pc, exc, pipeline_runs, dim_date_loaded, export,
                   results, stats, run, invoked>>
    /\ UNCHANGED <<loaderVars, extractVars, transformVars, agentVars>>
    /\ UNCHANGED exit_code

\* the "value" of a line item in the source file: a number, or other text
LeafValues == { [kind |-> "number", v |-> 500], [kind |-> "number", v |-> 0],
                [kind |-> "number", v |-> 20], [kind |-> "null", v |-> 0],
                [kind |-> "text", v |-> 0] }

\* float(value) raises (rootfi_extractor line 115)
FloatRaises(value) == value.kind = "text"

\* the generator raises while producing its next record: the float(value) of
\* a leaf is outside any try, and the exception leaves the for statement of
\* run_pipeline, which is outside the per-record try
ExtractRaises ==
    /\ pc = "extract"
    /\ yielded < RecordLimit
    /\ \E value \in LeafValues : FloatRaises(value)
    /\ pc' = "handler"
    /\ exc' = "ExtractError"
    /\ UNCHANGED <<mode, cur, pipeline_runs, facts, dim_account, dim_source,
                   dim_date_loaded, account_cache, source_cache, failed_records,
                   batch, total_processed, total_failed, export, results, stats,
                   run, yielded, bad_ids, submitted, flush_raised, row_raised,
                   load_excluded, invoked>>
    /\ UNCHANGED <<loaderVars, extractVars, transformVars, agentVars>>
    /\ UNCHANGED <<load_calls, exit_code>>

\* the generator is exhausted: the loop ends
ExtractEnds ==
    /\ pc = "extract"
    /\ pc' = "final_flush"
    /\ UNCHANGED <<mode, cur, exc, pipeline_runs, facts, dim_account, dim_source,
                   dim_date_loaded, account_cache, source_cache, failed_records,
                   batch, total_processed, total_failed, export, results, stats,
                   run, yielded, bad_ids, submitted, flush_raised, row_raised,
                   load_excluded, invoked>>
    /\ UNCHANGED <<loaderVars, extractVars, transformVars, agentVars>>
    /\ UNCHANGED <<load_calls, exit_code>>

\* lines 231-235: load the remaining batch
FinalFlush ==
    /\ pc = "final_flush"
    /\ IF batch = <<>>
       THEN /\ pc' = "complete"
            /\ UNCHANGED <<exc, total_processed, total_failed, facts,
                           dim_account, dim_source, account_cache, source_cache,
                           submitted, flush_raised, row_raised, load_excluded,
                           load_calls>>
       ELSE \E outcomes \in [1..Len(batch) -> RowOutcomes], bulk_ok \in BOOLEAN :
              LET res == LoadFactsBatch(batch, outcomes, bulk_ok) IN
              /\ StoreAfterLoad(batch, res)
              /\ IF res.raises
                 THEN /\ pc' = "handler"
                      /\ exc' = "StorageError"
                      /\ UNCHANGED <<total_processed, total_failed>>
                 ELSE /\ pc' = "complete"
                      /\ exc' = exc
                      /\ total_processed' = total_processed + res.loaded
                      /\ total_failed' = total_failed + (Len(batch) - res.loaded)
    /\ UNCHANGED <<mode, cur, pipeline_runs, dim_date_loaded, failed_records,
                   batch, export, results, stats, run, yielded, bad_ids, invoked>>
    /\ UNCHANGED <<loaderVars, extractVars, transformVars, agentVars>>
    /\ UNCHANGED exit_code

\* lines 237-242: the run object marked completed, and committed
Complete ==
    /\ pc = "complete"
    /\ \E ok \in BOOLEAN :
         LET r == [run EXCEPT !.row = [status |-> "completed",
                                       records_processed |-> total_processed,
                                       records_failed |-> total_failed,
                                       error_message |-> "none"]]
         IN /\ run' = r
            /\ pipeline_runs' = IF ok THEN CommitRun(r) ELSE pipeline_runs
            /\ pc' = IF ok THEN "save" ELSE "handler"
            /\ exc' = IF ok THEN "none" ELSE "StorageError"
    /\ UNCHANGED <<mode, cur, facts, dim_account, dim_source, dim_date_loaded,
                   account_cache, source_cache, failed_records, batch,
                   total_processed, total_failed, export, results, stats,
                   yielded, bad_ids, submitted, flush_raised, row_raised,
                   load_excluded, invoked>>
    /\ UNCHANGED <<loaderVars, extractVars, transformVars, agentVars>>
    /\ UNCHANGED <<load_calls, exit_code>>

\* (mutant) the file is written with its header and the first record only
WriteFirstFailedRecord == [written |-> TRUE, rows |-> <<failed_records[1]>>]

\* _save_failed_records (lines 125-156) when the file is written: one row per
\* entry of self.failed_records
WriteFailedRecords == [written |-> TRUE, rows |-> failed_records]

\* lines 244-256: the failed records saved, the stats returned
SaveAndReturn ==
    /\ pc = "save"
    /\ \E ok \in BOOLEAN :
         IF failed_records = <<>> \/ ok
         THEN /\ export' = IF failed_records = <<>> THEN export
                           ELSE WriteFailedRecords
              /\ stats' = [kind |-> "stats",
                           records_processed |-> total_processed,
                           records_failed |-> total_failed,
                           failed_records_csv |-> failed_records /= <<>>,
                           error |-> "none"]
              /\ pc' = "returned"
              /\ exc' = exc
         ELSE /\ pc' = "handler"
              /\ exc' = "IOError"
              /\ UNCHANGED <<export, stats>>
    /\ UNCHANGED <<mode, cur, pipeline_runs, facts, dim_account, dim_source,
                   dim_date_loaded, account_cache, source_cache, failed_records,
                   batch, total_processed, total_failed, results, run, yielded,
                   bad_ids, submitted, flush_raised, row_raised, load_excluded,
                   invoked>>
    /\ UNCHANGED <<loaderVars, extractVars, transformVars, agentVars>>
    /\ UNCHANGED <<load_calls, exit_code>>

\* lines 258-263: the outer handler marks the run failed and commits; a
\* commit that raises replaces the exception and skips the rest of the handler
Handler ==
    /\ pc = "handler"
    /\ \E ok \in BOOLEAN :
         LET r == [run EXCEPT !.row.status = "failed",
                              !.row.error_message = exc]
         IN /\ run' = r
            /\ pipeline_runs' = IF ok THEN CommitRun(r) ELSE pipeline_runs
            /\ pc' = IF ok THEN "handler_save" ELSE "raised"
            /\ exc' = IF ok THEN exc ELSE "StorageError"
    /\ UNCHANGED <<mode, cur, facts, dim_account, dim_source, dim_date_loaded,
                   account_cache, source_cache, failed_records, batch,
                   total_processed, total_failed, export, results, stats,
                   yielded, bad_ids, submitted, flush_raised, row_raised,
                   load_excluded, invoked>>
    /\ UNCHANGED <<loaderVars, extractVars, transformVars, agentVars>>
    /\ UNCHANGED <<load_calls, exit_code>>

\* lines 265-269: the failed records captured so far are saved, then raise
HandlerSaveAndRaise ==
    /\ pc = "handler_save"
    /\ \E ok \in BOOLEAN :
         IF failed_records = <<>> \/ ok
         THEN /\ export' = IF failed_records = <<>> THEN export
                           ELSE WriteFailedRecords
              /\ exc' = exc
         ELSE /\ exc' = "IOError"
              /\ UNCHANGED export
    /\ pc' = "raised"
    /\ UNCHANGED <<mode, cur, pipeline_runs, facts, dim_account, dim_source,
                   dim_date_loaded, account_cache, source_cache, failed_records,
                   batch, total_processed, total_failed, results, stats, run,
                   yielded, bad_ids, submitted, flush_raised, row_raised,
                   load_excluded, invoked>>
    /\ UNCHANGED <<loaderVars, extractVars, transformVars, agentVars>>
    /\ UNCHANGED <<load_calls, exit_code>>

\* --------------------------------------------------- run_full_pipeline

\* the locals and the history of the next run
RunLocalsReset ==
    /\ exc' = "none"
    /\ account_cache' = {}
    /\ source_cache' = {}
    /\ batch' = <<>>
    /\ total_processed' = 0
    /\ total_failed' = 0
    /\ export' = NoExport
    /\ stats' = NoStats
    /\ run' = NoRun
    /\ yielded' = 0
    /\ bad_ids' = {}
    /\ submitted' = <<>>
    /\ flush_raised' = FALSE
    /\ row_raised' = FALSE
    /\ load_excluded' = 0
    /\ load_calls' = <<>>

\* (mutant) the totals are overwritten by each completed run, not summed
RecordOutcomeLastOnly(res, src) ==
    IF pc = "returned"
    THEN [res EXCEPT ![src] = stats,
                     !.total_records = stats.records_processed,
                     !.total_failed = stats.records_failed]
    ELSE [res EXCEPT ![src] = [NoStats EXCEPT !.kind = "error", !.error = exc]]

\* results after one source's run ended (lines 296-303 and 306-313)
RecordOutcome(res, src) ==
    IF pc = "returned"
    THEN [res EXCEPT ![src] = stats,
                     !.total_records = @ + stats.records_processed,
                     !.total_failed = @ + stats.records_failed]
    ELSE [res EXCEPT ![src] = [NoStats EXCEPT !.kind = "error", !.error = exc]]

\* lines 295-303: the quickbooks run ended; the rootfi run is next
FullQuickbooksDone ==
    /\ mode = "all"
    /\ cur = "quickbooks"
    /\ pc \in {"returned", "raised"}
    /\ results' = RecordOutcome(results, "quickbooks")
    /\ cur' = "rootfi"
    /\ pc' = "idle"
    /\ RunLocalsReset
    /\ UNCHANGED <<mode, pipeline_runs, facts, dim_account, dim_source,
                   dim_date_loaded, failed_records, invoked>>
    /\ UNCHANGED <<loaderVars, extractVars, transformVars, agentVars>>
    /\ UNCHANGED exit_code

\* lines 305-316: the rootfi run ended; results is returned
FullRootfiDone ==
    /\ mode = "all"
    /\ cur = "rootfi"
    /\ pc \in {"returned", "raised"}
    /\ results' = RecordOutcome(results, "rootfi")
    /\ pc' = "done"
    /\ UNCHANGED <<mode, cur, exc, pipeline_runs, facts, dim_account, dim_source,
                   dim_date_loaded, account_cache, source_cache, failed_records,
                   batch, total_processed, total_failed, export, stats, run,
                   yielded, bad_ids, submitted, flush_raised, row_raised,
                   load_excluded, invoked>>
    /\ UNCHANGED <<loaderVars, extractVars, transformVars, agentVars>>
    /\ UNCHANGED <<load_calls, exit_code>>

\* ------------------------------------------------------------ main.py

\* main.run_pipeline (lines 57-106): the call made for --source has ended.
\* An exception of run_quickbooks_pipeline / run_rootfi_pipeline reaches the
\* handler of lines 103-106, sys.exit(1); otherwise the statistics are printed
\* and the process ends with status 0.  run_full_pipeline returns its results
\* whatever the two runs did, and the process ends with status 0.
CliExit ==
    /\ exit_code = NotExited
    /\ \/ mode /= "all" /\ pc \in {"returned", "raised"}
       \/ mode = "all" /\ pc = "done"
    /\ exit_code' = IF pc = "raised" THEN 1 ELSE 0
    /\ UNCHANGED <<mode, cur, pc, exc, pipeline_runs, facts, dim_account,
                   dim_source, dim_date_loaded, account_cache, source_cache,
                   failed_records, batch, total_processed, total_failed, export,
                   results, stats, run, yielded, bad_ids, submitted,
                   flush_raised, row_raised, load_excluded, invoked, load_calls>>
    /\ UNCHANGED <<loaderVars, extractVars, transformVars, agentVars>>

\* the loader part of the state, idle in Spec
LoaderIdle ==
    /\ store = {}
    /\ next_key = 1
    /\ loaders = <<>>
    /\ returned = {}

\* no document: the file is not looked at
NoFile == [exists |-> FALSE, has_data |-> FALSE,
           data |-> [kind |-> "null", items |-> <<>>]]

\* no extractor, transformer or mapper of their own is driven in Spec
ExtractIdle ==
    /\ ex_src = "none"
    /\ rf_data = <<>>
    /\ qb_data = <<>>
    /\ ex_pc = "idle"
    /\ ex_out = <<>>
    /\ ex_raised = FALSE
    /\ rf_file = NoFile
    /\ ex_error = ""

TransformIdle ==
    /\ tr_cache = {}
    /\ tr_calls = <<>>
    /\ tr_last = <<>>

\* FinancialAgentState as a thread starts with it (the fields the SQL nodes use)
AgentDefaults ==
    [question |-> "", sql |-> "", checked_sql |-> "", query_error |-> "",
     retries |-> 0]

\* no agent graph is run
AgentIdle ==
    /\ ag_node = "idle"
    /\ ag_state = AgentDefaults
    /\ ag_entered = <<>>
    /\ ag_questions = 0

Init ==
    PipelineInit /\ LoaderIdle /\ ExtractIdle /\ TransformIdle /\ AgentIdle

Next ==
    \/ BeginRun
    \/ InitializeDateDimension
    \/ Validate
    \/ ProcessRecord
    \/ ExtractRaises
    \/ ExtractEnds
    \/ FinalFlush
    \/ Complete
    \/ SaveAndReturn
    \/ Handler
    \/ HandlerSaveAndRaise
    \/ FullQuickbooksDone
    \/ FullRootfiDone
    \/ CliExit

Spec == Init /\ [][Next]_vars

\* ------------------------------------------------ properties of Spec

RunRow == pipeline_runs[cur]

\* the fact rows whose record came from source src
RECURSIVE FactsOf(_, _)
FactsOf(f, src) ==
    IF f = <<>> THEN <<>>
    ELSE IF f[1].source_system = src THEN <<f[1]>> \o FactsOf(Tail(f), src)
    ELSE FactsOf(Tail(f), src)

Range(f) == { f[i] : i \in 1..Len(f) }

FailedIds == { failed_records[i].id : i \in 1..Len(failed_records) }

\* C1 (as claimed): no run_pipeline invocation that returned or raised leaves
\* its PipelineRun row in status 'started'.
C1_NoStartedRowAtEnd ==
    pc \in {"returned", "raised"} => RunRow.status /= "started"

\* C2: in a run with no load or storage error, the records whose period does
\* not parse are captured and the others are loaded: a transformation failure
\* never reaches the outer handler, and at return the run is 'completed' with
\* records_processed = N - |F|, records_failed >= |F|, the facts of the run
\* are the records outside F, and the buffer and the export hold exactly the
\* records of F, each with its fields and error type ValueError.
C2_TransformFailuresCaptured ==
    /\ pc \in {"handler", "handler_save", "raised"} => exc /= "ValueError"
    /\ (pc = "returned" /\ ~flush_raised /\ ~row_raised) =>
         /\ RunRow.status = "completed"
         /\ stats.records_processed = yielded - Cardinality(bad_ids)
         /\ RunRow.records_processed = stats.records_processed
         /\ stats.records_failed >= Cardinality(bad_ids)
         /\ RunRow.records_failed = stats.records_failed
         /\ Len(FactsOf(facts, cur)) = yielded - Cardinality(bad_ids)
         /\ { f.id : f \in Range(FactsOf(facts, cur)) } = (1..yielded) \ bad_ids
         /\ Len(failed_records) = Cardinality(bad_ids)
         /\ FailedIds = bad_ids
         /\ \A i \in 1..Len(failed_records) :
              /\ failed_records[i].error_type = "ValueError"
              /\ failed_records[i].source_system = cur
              /\ UnparsablePeriod(failed_records[i])
         /\ (bad_ids /= {} => export = [written |-> TRUE, rows |-> failed_records])

\* C2 witness: a completed fault-free run in which a record failed
\* transformation and a later record was loaded
C2_Witness ==
    /\ pc = "returned" /\ ~flush_raised /\ ~row_raised
    /\ \E i \in bad_ids : \E k \in 1..Len(facts) :
         facts[k].source_system = cur /\ facts[k].id > i

\* C3 (as claimed): once a batch flush of the run has raised, the run does not
\* complete: its row is never 'completed' and run_pipeline does not return.
C3_FlushFailureIsFatal ==
    flush_raised => (pc /= "returned" /\ RunRow.status /= "completed")

\* C4 (as claimed): a failure while processing one record (extracting it or
\* transforming it) never reaches run_pipeline's outer handler.
C4_PerRecordFailureNotFatal ==
    pc = "handler" => exc \notin {"ExtractError", "ValueError"}

\* C5 (as claimed): when run_pipeline has raised, the run's row is 'failed'
\* with the error message and the failed records captured so far are in the
\* export.
C5_RaisedAfterMarkAndSave ==
    pc = "raised" =>
      /\ RunRow.status /= "none" =>
           (RunRow.status = "failed" /\ RunRow.error_message /= "none")
      /\ failed_records /= <<>> =>
           export = [written |-> TRUE, rows |-> failed_records]

\* C6 (as claimed): at normal completion with records_failed > 0 the export
\* is written and has records_failed rows.
C6_ExportRowsEqualFailedCount ==
    (pc = "returned" /\ stats.records_failed > 0) =>
      (export.written /\ Len(export.rows) = stats.records_failed)

\* C6 (amended): at normal completion the export is written exactly when the
\* failed-records buffer is not empty and holds one row per buffered record;
\* records_failed is that number of rows plus the number of records that
\* batch loads left out, which are counted and not exported.
C6_ExportRowsAreBufferedRecords ==
    pc = "returned" =>
      /\ export.written = (failed_records /= <<>>)
      /\ export.rows = failed_records
      /\ stats.failed_records_csv = export.written
      /\ stats.records_failed = Len(export.rows) + load_excluded

\* C6 witness: a completed run whose batch load left a record out, and whose
\* export has fewer rows than records_failed
C6_Witness ==
    /\ pc = "returned"
    /\ load_excluded > 0
    /\ export.written
    /\ Len(export.rows) < stats.records_failed

\* the sum of f over the sources whose run returned its stats
CompletedSum(res, f) ==
    (IF res.quickbooks.kind = "stats" THEN res.quickbooks[f] ELSE 0)
    + (IF res.rootfi.kind = "stats" THEN res.rootfi[f] ELSE 0)

\* C7: run_full_pipeline runs quickbooks and then rootfi whatever the first
\* run's outcome, returns (never raises) a result that holds for each source
\* the run's statistics or its error, and total_records / total_failed are
\* the sums over the sources that completed.
C7_FullPipelineAggregates ==
    /\ (mode = "all" /\ pc = "idle" /\ cur = "rootfi") =>
         (invoked = <<"quickbooks">> /\ results.quickbooks.kind \in {"stats", "error"})
    /\ (mode = "all" /\ pc \in {"returned", "raised"}) =>
         ENABLED (FullQuickbooksDone \/ FullRootfiDone)
    /\ pc = "done" =>
         /\ invoked = <<"quickbooks", "rootfi">>
         /\ \A src \in Sources :
              /\ results[src].kind \in {"stats", "error"}
              /\ results[src].kind = "error" => results[src].error /= "none"
              /\ results[src].kind = "stats" =>
                   /\ pipeline_runs[src].status = "completed"
                   /\ pipeline_runs[src].records_processed
                        = results[src].records_processed
                   /\ pipeline_runs[src].records_failed
                        = results[src].records_failed
         /\ results.total_records = CompletedSum(results, "records_processed")
         /\ results.total_failed = CompletedSum(results, "records_failed")

\* C7 witness: the quickbooks run raised, the rootfi run was made and
\* completed with a loaded record, and the totals are rootfi's
C7_Witness ==
    /\ pc = "done"
    /\ results.quickbooks.kind = "error"
    /\ results.rootfi.kind = "stats"
    /\ results.rootfi.records_processed > 0
    /\ results.total_records = results.rootfi.records_processed

\* C7 second witness state: both runs completed and the totals add up
C7_BothCompleted ==
    /\ pc = "done"
    /\ results.quickbooks.kind = "stats" /\ results.quickbooks.records_processed > 0
    /\ results.rootfi.kind = "stats" /\ results.rootfi.records_processed > 0

\* the run in progress is one whose extractor.validate() raised
ValidationFailed == run.row.error_message = "ValidationError"

\* a run whose validate() raised extracted nothing and wrote no account,
\* source or fact row (the part of C8 that does not depend on the handler)
ValidationFrame ==
    ValidationFailed =>
      /\ yielded = 0 /\ submitted = <<>> /\ batch = <<>>
      /\ account_cache = {} /\ source_cache = {}
      /\ FactsOf(facts, cur) = <<>>
      /\ failed_records = <<>>

\* C8 (as claimed): when validate() raised, nothing was extracted or written,
\* the run's row is 'failed' and the validation error is what reaches the
\* caller.
C8_ValidationFailureIsClean ==
    (pc = "raised" /\ ValidationFailed) =>
      /\ yielded = 0 /\ submitted = <<>>
      /\ account_cache = {} /\ source_cache = {}
      /\ FactsOf(facts, cur) = <<>>
      /\ RunRow.status = "failed"
      /\ exc = "ValidationError"

IsPrefix(s, t) == Len(s) <= Len(t) /\ \A i \in 1..Len(s) : s[i] = t[i]

\* no record has two fact rows
FactsUnique ==
    \A i, j \in 1..Len(facts) :
      (facts[i].source_system = facts[j].source_system /\ facts[i].id = facts[j].id)
        => i = j

\* C9: fact rows are only appended (never updated or deleted), no transformed
\* record has more than one fact row at any point of a run whatever flushes
\* raised, and at normal completion the run has inserted records_processed
\* fact rows.
C9_FactsAppendOnlyOncePerRecord ==
    /\ [][IsPrefix(facts, facts')]_vars
    /\ [](FactsUnique
          /\ (pc = "returned" =>
                Len(FactsOf(facts, cur)) = stats.records_processed))

\* C9 witness: a completed run in which a flush raised and the batch was
\* loaded by a later flush
C9_Witness ==
    /\ pc = "returned"
    /\ flush_raised
    /\ Len(FactsOf(facts, cur)) >= ChunkSize

\* the `run` command has ended after a run_pipeline invocation raised
RunFailed ==
    IF mode = "all" THEN \E src \in Sources : results[src].kind = "error"
    ELSE pc = "raised"

\* C21 (as claimed): whenever a source's run failed unrecoverably, the `run`
\* command ends with a non-zero status, for --source quickbooks, rootfi and all.
C21_NonZeroExitOnFailure ==
    (exit_code /= NotExited /\ RunFailed) => exit_code /= 0

\* what holds of C21: with --source quickbooks or rootfi the status is 1
\* exactly when the run raised
SingleSourceExit ==
    (exit_code /= NotExited /\ mode /= "all") => (exit_code = 1 <=> pc = "raised")

\* the ids of the records handed to the k-th _load_facts_batch call of the run
CallIds(k) == { load_calls[k].batch[i] : i \in 1..Len(load_calls[k].batch) }

\* C22 (as claimed): no record is handed to _load_facts_batch twice in a run;
\* in particular the records of a batch whose flush raised are not handed to
\* it again.
C22_NoBatchResubmitted ==
    \A i, j \in 1..Len(load_calls) : i < j => CallIds(i) \cap CallIds(j) = {}

\* what holds of C22: the records of a flush that returned are not submitted
\* again
ReturnedBatchNotResubmitted ==
    \A i, j \in 1..Len(load_calls) :
      (i < j /\ ~load_calls[i].raised) => CallIds(i) \cap CallIds(j) = {}

\* the records of the last _load_facts_batch call that were not skipped
Kept(call) ==
    LET NotSkipped(id) == id \notin call.skipped
    IN SelectSeq(call.batch, NotSkipped)

\* C23: a _load_facts_batch call in which the key resolution or row
\* construction of some records raised, and which returned, inserted the fact
\* rows of exactly the other records of the batch, in order, returned their
\* number, the caller added that number to total_processed and the number of
\* the excluded records to total_failed, and the run went on (it did not
\* enter a handler, and no record was captured as failed).
C23_OnlyFailedRowExcluded ==
    [][ (Len(load_calls') = Len(load_calls) + 1
           /\ ~load_calls'[Len(load_calls')].raised) =>
        LET call == load_calls'[Len(load_calls')]
        IN /\ IsPrefix(facts, facts')
           /\ Ids(SubSeq(facts', Len(facts) + 1, Len(facts'))) = Kept(call)
           /\ call.loaded = Len(Kept(call))
           /\ total_processed' = total_processed + call.loaded
           /\ total_failed' = total_failed + (Len(call.batch) - call.loaded)
           /\ failed_records' = failed_records
           /\ pc' \in {"extract", "complete"}
           /\ exc' = exc ]_vars

\* C23 witness: the last flush skipped one record of its batch, inserted
\* another and returned, and the run completed
C23_Witness ==
    /\ pc = "returned"
    /\ load_calls /= <<>>
    /\ LET call == load_calls[Len(load_calls)]
       IN /\ ~call.raised
          /\ call.skipped /= {}
          /\ call.loaded > 0
          /\ \E k \in 1..Len(facts) :
               facts[k].source_system = cur /\ facts[k].id \in CallIds(Len(load_calls))
    /\ stats.records_failed > 0

\* C24 (as claimed): the batch never holds more than chunk_size records.
C24_BatchBounded == Len(batch) <= ChunkSize

\* what holds of C24: while no flush of the run has raised, the batch holds
\* fewer than chunk_size records between iterations
BatchBoundedWithoutFlushFailure == ~flush_raised => Len(batch) < ChunkSize

\* C29 (as claimed): at normal completion records_processed + records_failed
\* is the number of records the extractor yielded.
C29_EveryRecordCountedOnce ==
    pc = "returned" =>
      stats.records_processed + stats.records_failed = yielded

\* what holds of C29: the counts add up in a run none of whose flushes raised
CountsAddUpWithoutFlushFailure ==
    (pc = "returned" /\ ~flush_raised) =>
      stats.records_processed + stats.records_failed = yielded

\* =================================================== DimensionLoader
\* SpecLoader: two DimensionLoader instances, each with its own
\* _account_cache and its own session, call upsert_account on one dim_account
\* table.  A call is the cache check, then the INSERT .. ON CONFLICT
\* (account_id) DO UPDATE .. RETURNING account_key statement, then the commit.
\* The instances may belong to successive runs (one finishes before the next
\* starts) or run side by side.

\* the two DimensionLoader instances
Loaders == {"loader_a", "loader_b"}

\* the arguments of the calls: account_id is the transformer's id of the
\* name, so "Sales" and "SALES" are one account under two names
LoaderCalls ==
    { [account_id |-> GenerateAccountId(n, "revenue", "rootfi"),
       account_name |-> n] : n \in {"Sales", "SALES", "Rent"} }

NoCall == [account_id |-> "", account_name |-> ""]
NoTx == [op |-> "none", account_key |-> 0]

NewLoader == [cache |-> {}, pc |-> "idle", call |-> NoCall, tx |-> NoTx,
              calls |-> 0]

LoaderInit ==
    /\ store = {}
    /\ next_key = 1
    /\ loaders = [l \in Loaders |-> NewLoader]
    /\ returned = {}

\* the rows of the table with this account_id
RowsOf(tbl, account_id) == { r \in tbl : r.account_id = account_id }

\* _account_cache lookups: the cache is a set of <<account_id, account_key>>
Cached(cache, account_id) == \E e \in cache : e[1] = account_id
CachedKey(cache, account_id) ==
    (CHOOSE e \in cache : e[1] = account_id)[2]

\* (mutant) a plain INSERT: no conflict target, always a new row
PlainInsertStatement(tbl, c, fresh) == [op |-> "insert", account_key |-> fresh]

\* lines 123-147: what the statement does and the account_key it returns: the
\* row with this account_id is updated and its key returned, or a row is
\* inserted with a fresh key
UpsertStatement(tbl, c, fresh) ==
    IF RowsOf(tbl, c.account_id) /= {}
    THEN [op |-> "update",
          account_key |-> (CHOOSE r \in RowsOf(tbl, c.account_id) : TRUE).account_key]
    ELSE [op |-> "insert", account_key |-> fresh]

\* the table once the statement's transaction is committed
ApplyTx(tbl, c, tx) ==
    IF tx.op = "update"
    THEN { IF r.account_id = c.account_id
           THEN [r EXCEPT !.account_name = c.account_name] ELSE r : r \in tbl }
    ELSE tbl \cup { [account_key |-> tx.account_key, account_id |-> c.account_id,
                     account_name |-> c.account_name] }

\* the account_name the table holds for this account_id ("" when no row)
StoredName(tbl, account_id) ==
    IF RowsOf(tbl, account_id) = {} THEN ""
    ELSE (CHOOSE r \in RowsOf(tbl, account_id) : TRUE).account_name

\* what a call returned, with the account_name the table holds for the
\* account_id at the moment the call returns
ReturnEntry(l, c, key, hit, tbl) ==
    [loader |-> l, account_id |-> c.account_id,
     account_name |-> c.account_name, account_key |-> key, cache_hit |-> hit,
     stored_name |-> StoredName(tbl, c.account_id)]

\* (mutant) statements never wait for one another
NoConflictingWrite(l, c) == FALSE

\* account_id is unique (models/financial.py:42-44) and the statement names it
\* as conflict target: while another session holds an uncommitted write of the
\* same account_id, the statement waits for that transaction to end
ConflictingWrite(l, c) ==
    \E m \in Loaders \ {l} :
      loaders[m].pc = "executed" /\ loaders[m].call.account_id = c.account_id

\* lines 118-120: the account_id is cached, the cached key is returned
UpsertCacheHit(l) ==
    /\ loaders[l].pc = "idle"
    /\ loaders[l].calls < MaxCalls
    /\ \E c \in LoaderCalls :
         /\ Cached(loaders[l].cache, c.account_id)
         /\ returned' = returned \cup
              {ReturnEntry(l, c, CachedKey(loaders[l].cache, c.account_id), TRUE,
                           store)}
    /\ loaders' = [loaders EXCEPT ![l].calls = @ + 1]
    /\ UNCHANGED <<store, next_key>>
    /\ UNCHANGED <<pipeVars, extractVars, transformVars, agentVars>>

\* lines 122-147: cache miss, the statement is executed in the loader's
\* transaction (or raises).  The store makes a statement wait while another
\* transaction holds an uncommitted write of the same account_id.
UpsertExecute(l) ==
    /\ loaders[l].pc = "idle"
    /\ loaders[l].calls < MaxCalls
    /\ \E c \in LoaderCalls, ok \in BOOLEAN :
         /\ ~Cached(loaders[l].cache, c.account_id)
         /\ ~ConflictingWrite(l, c)
         /\ IF ok
            THEN /\ loaders' = [loaders EXCEPT
                       ![l].pc = "executed",
                       ![l].call = c,
                       ![l].tx = UpsertStatement(store, c, next_key)]
                 /\ next_key' = next_key + 1
            ELSE /\ loaders' = [loaders EXCEPT ![l].calls = @ + 1]
                 /\ UNCHANGED next_key
    /\ UNCHANGED <<store, returned>>
    /\ UNCHANGED <<pipeVars, extractVars, transformVars, agentVars>>

\* lines 148-152: the commit; then the key is cached and returned.  A commit
\* that raises rolls the statement back and the call raises.
UpsertCommit(l) ==
    /\ loaders[l].pc = "executed"
    /\ \E ok \in BOOLEAN :
         LET c == loaders[l].call
             tx == loaders[l].tx
         IN IF ok
            THEN /\ store' = ApplyTx(store, c, tx)
                 /\ loaders' = [loaders EXCEPT
                       ![l].pc = "idle", ![l].call = NoCall, ![l].tx = NoTx,
                       ![l].cache = @ \cup {<<c.account_id, tx.account_key>>},
                       ![l].calls = @ + 1]
                 /\ returned' = returned \cup
                      {ReturnEntry(l, c, tx.account_key, FALSE,
                                   ApplyTx(store, c, tx))}
            ELSE /\ loaders' = [loaders EXCEPT
                       ![l].pc = "idle", ![l].call = NoCall, ![l].tx = NoTx,
                       ![l].calls = @ + 1]
                 /\ UNCHANGED <<store, returned>>
    /\ UNCHANGED next_key
    /\ UNCHANGED <<pipeVars, extractVars, transformVars, agentVars>>

InitLoader ==
    /\ LoaderInit /\ PipelineInit /\ mode = "all"
    /\ ExtractIdle /\ TransformIdle /\ AgentIdle

NextLoader ==
    \E l \in Loaders :
      \/ UpsertCacheHit(l)
      \/ UpsertExecute(l)
      \/ UpsertCommit(l)

SpecLoader == InitLoader /\ [][NextLoader]_vars

\* -------------------------------------------- properties of SpecLoader

\* C10: any two upsert_account calls with the same account_id and the same
\* attributes return the same account_key, on one loader or on different
\* loaders, and the table holds exactly one row for an account_id that a call
\* has returned (never more than one for any account_id).
C10_UpsertIdempotent ==
    /\ \A r1, r2 \in returned :
         (r1.account_id = r2.account_id /\ r1.account_name = r2.account_name)
           => r1.account_key = r2.account_key
    /\ \A r \in returned :
         /\ Cardinality(RowsOf(store, r.account_id)) = 1
         /\ \A row \in RowsOf(store, r.account_id) : row.account_key = r.account_key
    /\ \A c \in LoaderCalls : Cardinality(RowsOf(store, c.account_id)) <= 1

\* C10 witness: the same account upserted with the same name by both loaders
\* (the second through the conflict clause) and again by one of them (cache)
C10_Witness ==
    \E r1, r2, r3 \in returned :
      /\ r1.loader /= r2.loader
      /\ ~r1.cache_hit /\ ~r2.cache_hit /\ r3.cache_hit
      /\ r1.account_id = r2.account_id /\ r1.account_name = r2.account_name
      /\ r3.account_id = r1.account_id /\ r3.account_name = r1.account_name

\* C11 (as claimed): every upsert_account call that returns leaves the row of
\* its account_id holding the account_name of the call, and all calls for one
\* account_id return one account_key; a call on a loader that has already
\* upserted the account_id is included.
C11_UpsertUpdatesName ==
    /\ \A r \in returned : r.stored_name = r.account_name
    /\ \A r1, r2 \in returned :
         r1.account_id = r2.account_id => r1.account_key = r2.account_key

\* the part of C11 that holds: a call that reaches the statement (the
\* account_id is not in the loader's cache) updates the stored name
UpsertStatementUpdatesName ==
    \A r \in returned : ~r.cache_hit => r.stored_name = r.account_name

\* C12: two loaders with separate caches interleaving calls for one
\* account_id: the table never holds more than one row for it, every call that
\* returned for it returned that row's account_key whatever the names used, and
\* every cache entry of either loader maps the account_id to that row's key.
C12_ConcurrentUpsertsSerialize ==
    /\ \A c \in LoaderCalls : Cardinality(RowsOf(store, c.account_id)) <= 1
    /\ \A r \in returned :
         \E row \in store :
           /\ RowsOf(store, r.account_id) = {row}
           /\ row.account_key = r.account_key
    /\ \A l \in Loaders : \A e \in loaders[l].cache :
         \E row \in store :
           /\ RowsOf(store, e[1]) = {row}
           /\ row.account_key = e[2]

\* C12 witness: both loaders reached the statement for one account_id under
\* different names, both hold it in their caches, and one of them is in the
\* middle of a call (statement executed, not committed) for another account
C12_Witness ==
    \E r1, r2 \in returned :
      /\ r1.loader /= r2.loader
      /\ ~r1.cache_hit /\ ~r2.cache_hit
      /\ r1.account_id = r2.account_id /\ r1.account_name /= r2.account_name
      /\ \A l \in Loaders : Cached(loaders[l].cache, r1.account_id)
      /\ \E l \in Loaders : loaders[l].pc = "executed"

\* ======================================================== extractors
\* SpecExtract: one extractor, validated on one source file, and its extract()
\* generator consumed to the end (or to the exception that ends it).

\* ---- the hierarchical (Rootfi) file

Number(n) == [kind |-> "number", v |-> n]

\* a line item: {"name": .., "value": .., "account_id": .., "line_items": [..]}
LineItem(name, value, line_items) ==
    [name |-> name, value |-> value, account_id |-> <<>>,
     line_items |-> line_items]

\* float(value) if value is not None else 0.0 (line 115), where it returns
AmountOf(value) == IF value.kind = "number" THEN value.v ELSE 0

RECURSIVE SumValues(_)
SumValues(items) ==
    IF items = <<>> THEN 0
    ELSE AmountOf(Head(items).value) + SumValues(Tail(items))

\* childless line items: every value under one name, a name that is also a
\* rollup's, no name, a name with blanks around it
RootfiLeaves ==
    { LineItem("Salaries", v, <<>>) : v \in LeafValues }
      \cup { LineItem("Payroll", Number(500), <<>>),
              LineItem("", Number(500), <<>>),
              LineItem(" Bonus ", Number(20), <<>>) }

RollupNames == {"Payroll", " Payroll ", ""}

\* line items of nesting depth <= d; a rollup states the sum of its children
RECURSIVE RootfiItems(_)
RootfiItems(d) ==
    IF d = 0 THEN RootfiLeaves
    ELSE LET wages == LineItem("Wages", Number(20), <<>>)
             lists == UNION { { <<c>>, <<c, wages>>, <<wages, c>> } :
                              c \in RootfiItems(d - 1) }
         IN RootfiLeaves \cup
              { LineItem(n, Number(SumValues(l)), l) : n \in RollupNames, l \in lists }

\* the account_id of every line item: its path in the section
RECURSIVE Label(_, _, _)
Label(items, prefix, i) ==
    IF i > Len(items) THEN <<>>
    ELSE <<[items[i] EXCEPT !.account_id = prefix \o <<i>>,
                            !.line_items = Label(@, prefix \o <<i>>, 1)]>>
           \o Label(items, prefix, i + 1)

SectionKinds == {"revenue", "cost_of_goods_sold", "operating_expenses"}

\* one period record with one populated section; `off` makes the top item
\* state a value that is not the sum of its children
PeriodRecord(kind, item, off, period_end) ==
    LET top == IF item.line_items = <<>> THEN item
               ELSE [item EXCEPT !.value = Number(@.v + off)]
        secs == <<[name |-> "Opex", line_items |-> Label(<<top>>, <<>>, 1)]>>
    IN [period_start |-> RawDateStr("2024-01-01", ""),
        period_end |-> period_end,
        revenue |-> IF kind = "revenue" THEN secs ELSE <<>>,
        cost_of_goods_sold |-> IF kind = "cost_of_goods_sold" THEN secs ELSE <<>>,
        operating_expenses |-> IF kind = "operating_expenses" THEN secs ELSE <<>>]

RootfiFiles ==
    { <<PeriodRecord(kind, item, off, pe)>> :
        kind \in SectionKinds, item \in RootfiItems(MaxDepth), off \in {0, 1},
        pe \in {RawDateStr("2024-01-31", ""), NoDate} }

\* ---- RootfiExtractor

\* what a generator produced: the records it yielded and whether it ended by
\* raising
Yielded(out, raised) == [out |-> out, raised |-> raised]

\* (mutant) every line item is taken for a leaf
NeverHasChildren(item) == FALSE

\* line 93: has_children = bool(item.get("line_items"))
HasChildren(item) == item.line_items /= <<>>

\* RootfiExtractor._process_line_items
RECURSIVE ProcessLineItems(_, _, _)
ProcessLineItems(line_items, account_type, parent_name) ==
    IF line_items = <<>> THEN Yielded(<<>>, FALSE)
    ELSE
      LET item == Head(line_items)
          name == Strip(item.name)
          first ==
            IF name = "" THEN Yielded(<<>>, FALSE)
            ELSE IF HasChildren(item)
            THEN ProcessLineItems(item.line_items, account_type, name)
            ELSE IF FloatRaises(item.value) THEN Yielded(<<>>, TRUE)
            ELSE Yielded(<<[account_name |-> name,
                            account_type |-> account_type,
                            parent_account |-> parent_name,
                            amount |-> AmountOf(item.value),
                            source_account_id |-> item.account_id]>>, FALSE)
      IN IF first.raised THEN first
         ELSE LET rest == ProcessLineItems(Tail(line_items), account_type,
                                           parent_name)
              IN Yielded(first.out \o rest.out, rest.raised)

\* the loop over the sections of one kind in _extract_period
RECURSIVE ExtractSections(_, _)
ExtractSections(sections, account_type) ==
    IF sections = <<>> THEN Yielded(<<>>, FALSE)
    ELSE LET first == ProcessLineItems(Head(sections).line_items, account_type,
                                       Head(sections).name)
         IN IF first.raised THEN first
            ELSE LET rest == ExtractSections(Tail(sections), account_type)
                 IN Yielded(first.out \o rest.out, rest.raised)

\* RootfiExtractor._extract_period
ExtractPeriod(record) ==
    IF record.period_start = NoDate \/ record.period_end = NoDate
    THEN Yielded(<<>>, FALSE)
    ELSE
      LET rev == ExtractSections(record.revenue, "revenue")
          cogs == ExtractSections(record.cost_of_goods_sold, "cogs")
          opex == ExtractSections(record.operating_expenses, "expense")
          all == IF rev.raised THEN rev
                 ELSE IF cogs.raised THEN Yielded(rev.out \o cogs.out, TRUE)
                 ELSE Yielded(rev.out \o cogs.out \o opex.out, opex.raised)
          Stamp(item_data) ==
            [account_name |-> item_data.account_name,
             account_type |-> item_data.account_type,
             parent_account |-> item_data.parent_account,
             amount |-> item_data.amount,
             source_account_id |-> item_data.source_account_id,
             period_start |-> record.period_start,
             period_end |-> record.period_end,
             source_system |-> "rootfi"]
      IN Yielded([i \in 1..Len(all.out) |-> Stamp(all.out[i])], all.raised)

\* (mutant) no filter on the amount
AnyAmount(transaction) == TRUE

\* line 204: only yield non-zero amounts
NonZero(transaction) == transaction.amount /= 0

\* RootfiExtractor.extract
RECURSIVE RootfiExtractAll(_)
RootfiExtractAll(data) ==
    IF data = <<>> THEN Yielded(<<>>, FALSE)
    ELSE LET p == ExtractPeriod(Head(data))
             first == Yielded(SelectSeq(p.out, NonZero), p.raised)
         IN IF first.raised THEN first
            ELSE LET rest == RootfiExtractAll(Tail(data))
                 IN Yielded(first.out \o rest.out, rest.raised)

RootfiExtract ==
    /\ ex_src = "rootfi"
    /\ ex_pc = "validated"
    /\ LET res == RootfiExtractAll(rf_data)
       IN /\ ex_out' = res.out
          /\ ex_raised' = res.raised
    /\ ex_pc' = "done"
    /\ UNCHANGED <<ex_src, rf_data, qb_data, rf_file, ex_error>>
    /\ UNCHANGED <<pipeVars, loaderVars, transformVars, agentVars>>

\* ---- the columnar (QuickBooks) file

\* a cell of ColData: {"value": <text>} or {"value": null}
Cell(text) == [null |-> FALSE, s |-> text]
NullCell == [null |-> TRUE, s |-> ""]

\* amount cells: zero in several spellings, amounts with a thousands separator,
\* a currency sign, a sign, a fraction, no text, text that is no number, null
AmountCells ==
    { Cell("0"), Cell("0.00"), Cell("$0"), Cell("1,200"), Cell("$5"),
      Cell("-3"), Cell("12.50"), Cell(""), Cell("n/a"), NullCell }

DataRow(name, amounts, rows) ==
    [type |-> "Data", group |-> "", ColData |-> <<Cell(name)>> \o amounts,
     Rows |-> rows]

SectionRow(group, rows) ==
    [type |-> "Section", group |-> group, ColData |-> <<>>, Rows |-> rows]

\* Data rows without children: one or two amount cells
QbLeafRows ==
    { DataRow(n, <<a>>, <<>>) : n \in {"Sales", " Rent ", ""}, a \in AmountCells }
      \cup { DataRow("Sales", <<a, b>>, <<>>) :
               a \in AmountCells, b \in {Cell("0"), Cell("$5")} }

QbGroups == {"Income", "Cost of Goods Sold", "Expenses", "Other Income",
             "Equity"}

\* rows of nesting depth <= d
RECURSIVE QbRows(_)
QbRows(d) ==
    IF d = 0 THEN QbLeafRows
    ELSE QbLeafRows
           \cup { SectionRow(g, <<c>>) : g \in QbGroups, c \in QbRows(d - 1) }
           \cup { DataRow(n, <<Cell("$5")>>, <<c>>) :
                    n \in {"Payroll", ""}, c \in QbRows(d - 1) }

\* Columns.Column of the report: the account column and two monthly columns
QbColumns ==
    << [ColType |-> "Account", StartDate |-> NoDate, EndDate |-> NoDate],
       [ColType |-> "Money", StartDate |-> RawDateStr("2024-01-01", ""),
                             EndDate |-> RawDateStr("2024-01-31", "")],
       [ColType |-> "Money", StartDate |-> RawDateStr("2024-02-01", ""),
                             EndDate |-> RawDateStr("2024-02-29", "")] >>

\* a first branch of the report, for the files that have two
QbFirstBranch ==
    SectionRow("Income",
               <<DataRow("Payroll", <<Cell("$5")>>,
                         <<DataRow("Sales", <<Cell("$5")>>, <<>>)>>)>>)

QbFiles ==
    { [Columns |-> QbColumns, Rows |-> <<r>>] : r \in QbRows(MaxDepth) }
      \cup { [Columns |-> QbColumns, Rows |-> <<QbFirstBranch, r>>] :
               r \in QbRows(MaxDepth - 1) }

\* ---- QuickBooksExtractor

\* str.replace(ch, "")
RECURSIVE Remove(_, _)
Remove(s, ch) ==
    IF s = "" THEN ""
    ELSE (IF SubSeq(s, 1, 1) = ch THEN "" ELSE SubSeq(s, 1, 1))
           \o Remove(SubSeq(s, 2, Len(s)), ch)

\* float(text) for decimal text with at most two fraction digits: the value in
\* hundredths, or ValueError (ok = FALSE)
Float(text) ==
    LET neg == Len(text) > 0 /\ SubSeq(text, 1, 1) = "-"
        body == IF neg THEN SubSeq(text, 2, Len(text)) ELSE text
        dots == { i \in 1..Len(body) : SubSeq(body, i, i) = "." }
        dot == IF dots = {} THEN Len(body) + 1 ELSE CHOOSE i \in dots : TRUE
        whole == SubSeq(body, 1, dot - 1)
        frac == SubSeq(body, dot + 1, Len(body))
        ok == /\ Cardinality(dots) <= 1
              /\ IsDigits(whole) /\ IsDigits(frac)
              /\ Len(whole) + Len(frac) > 0
              /\ Len(frac) <= 2
        cents == IF Len(frac) = 1 THEN 10 * DigitsValue(frac) ELSE DigitsValue(frac)
        v == 100 * DigitsValue(whole) + cents
    IN IF ok THEN [ok |-> TRUE, v |-> IF neg THEN 0 - v ELSE v]
       ELSE [ok |-> FALSE, v |-> 0]

\* (mutant) the amount text is parsed as written, "," and "$" included
CellAmountAsWritten(cell) ==
    IF cell.null THEN 0
    ELSE LET f == Float(cell.s)
         IN IF f.ok THEN f.v ELSE 0

\* lines 123-129: the amount of a cell: the text without "," and "$" as a
\* float, 0.0 when that raises ValueError or the value is not text
CellAmount(cell) ==
    IF cell.null THEN 0
    ELSE LET f == Float(Remove(Remove(cell.s, ","), "$"))
         IN IF f.ok THEN f.v ELSE 0

\* QuickBooksExtractor._parse_columns
ParseColumns(columns) ==
    LET IsMoney(col) == col.ColType = "Money"
        money == SelectSeq(columns, IsMoney)
    IN [i \in 1..Len(money) |->
          [start_date |-> money[i].StartDate, end_date |-> money[i].EndDate]]

\* (mutant) a Section whose label stands for no type hands down no type
SectionTypeOwnOnly(row, account_type) ==
    IF row.type /= "Section" THEN account_type
    ELSE IF Contains(row.group, "Income") \/ Contains(row.group, "Revenue")
    THEN "revenue"
    ELSE IF Contains(row.group, "Cost of Goods Sold") \/ Contains(row.group, "COGS")
    THEN "cogs"
    ELSE IF Contains(row.group, "Expenses") THEN "expense"
    ELSE ""

\* lines 99-107: the account type a row hands down
SectionType(row, account_type) ==
    IF row.type /= "Section" THEN account_type
    ELSE IF Contains(row.group, "Income") \/ Contains(row.group, "Revenue")
    THEN "revenue"
    ELSE IF Contains(row.group, "Cost of Goods Sold") \/ Contains(row.group, "COGS")
    THEN "cogs"
    ELSE IF Contains(row.group, "Expenses") \/ Contains(row.group, "Operating Expenses")
    THEN "expense"
    ELSE account_type

\* lines 120-142: the records of one Data row, one per column with an amount
RECURSIVE RowRecords(_, _, _, _, _, _)
RowRecords(col_data, columns, idx, account_name, account_type, parent_account) ==
    IF idx > Len(columns) THEN <<>>
    ELSE
      LET amount == CellAmount(col_data[idx + 1])
          here ==
            IF idx + 1 <= Len(col_data) /\ amount /= 0
            THEN <<[account_name |-> account_name,
                    account_type |-> IF account_type = "" THEN "other"
                                     ELSE account_type,
                    parent_account |-> parent_account,
                    amount |-> amount,
                    source_account_id |-> <<>>,
                    period_start |-> columns[idx].start_date,
                    period_end |-> columns[idx].end_date,
                    source_system |-> "quickbooks"]>>
            ELSE <<>>
      IN here \o RowRecords(col_data, columns, idx + 1, account_name,
                            account_type, parent_account)

\* QuickBooksExtractor._process_row ("" stands for None)
RECURSIVE ProcessRow(_, _, _, _)
ProcessRow(row, columns, parent_account, account_type) ==
    LET atype == SectionType(row, account_type)
        col_data == row.ColData
        isData == row.type = "Data"
        account_name == IF isData /\ col_data /= <<>>
                        THEN Strip(col_data[1].s) ELSE ""
        own == IF isData /\ account_name /= ""
               THEN RowRecords(col_data, columns, 1, account_name, atype,
                               parent_account)
               ELSE <<>>
        child_parent == IF account_name /= "" THEN account_name
                        ELSE parent_account
        ProcessChildren[i \in 1..(Len(row.Rows) + 1)] ==
            IF i > Len(row.Rows) THEN <<>>
            ELSE ProcessRow(row.Rows[i], columns, child_parent, atype)
                   \o ProcessChildren[i + 1]
    IN own \o ProcessChildren[1]

\* QuickBooksExtractor.extract
RECURSIVE QuickBooksExtractAll(_, _)
QuickBooksExtractAll(rows, columns) ==
    IF rows = <<>> THEN <<>>
    ELSE ProcessRow(Head(rows), columns, "", "")
           \o QuickBooksExtractAll(Tail(rows), columns)

QuickBooksExtract ==
    /\ ex_src = "quickbooks"
    /\ ex_pc = "validated"
    /\ ex_out' = QuickBooksExtractAll(qb_data.Rows, ParseColumns(qb_data.Columns))
    /\ ex_raised' = FALSE
    /\ ex_pc' = "done"
    /\ UNCHANGED <<ex_src, rf_data, qb_data, rf_file, ex_error>>
    /\ UNCHANGED <<pipeVars, loaderVars, transformVars, agentVars>>

\* ---- SpecExtract

NoQbData == [Columns |-> <<>>, Rows |-> <<>>]

InitExtract ==
    /\ PipelineInit /\ mode = "all" /\ LoaderIdle /\ TransformIdle /\ AgentIdle
    /\ ex_src \in Sources
    /\ IF ex_src = "rootfi"
       THEN rf_data \in RootfiFiles /\ qb_data = NoQbData
       ELSE rf_data = <<>> /\ qb_data \in QbFiles
    /\ ex_pc = "validated"
    /\ ex_out = <<>>
    /\ ex_raised = FALSE
    /\ rf_file = NoFile
    /\ ex_error = ""

NextExtract == RootfiExtract \/ QuickBooksExtract

SpecExtract == InitExtract /\ [][NextExtract]_vars

\* ---- SpecValidate: RootfiExtractor.validate() on one document, then
\* extract() when it returned True

\* a period field of a document: its key is absent, its value is null, or it
\* is a date
FieldStates == {"absent", "null", "date"}

\* a period record of a document; keys are the period keys it has
DocPeriod(start, end) ==
    [period_start |-> IF start = "date" THEN RawDateStr("2024-01-01", "") ELSE NoDate,
     period_end |-> IF end = "date" THEN RawDateStr("2024-01-31", "") ELSE NoDate,
     revenue |-> <<[name |-> "Income",
                    line_items |-> Label(<<LineItem("Sales", Number(500), <<>>)>>,
                                         <<>>, 1)]>>,
     cost_of_goods_sold |-> <<>>,
     operating_expenses |-> <<>>,
     keys |-> (IF start = "absent" THEN {} ELSE {"period_start"})
                \cup (IF end = "absent" THEN {} ELSE {"period_end"})]

DocPeriods == { DocPeriod(s, e) : s \in FieldStates, e \in FieldStates }

\* the lists of 1..n period records
RECURSIVE PeriodLists(_)
PeriodLists(n) ==
    IF n = 0 THEN {}
    ELSE { <<r>> : r \in DocPeriods }
           \cup { Append(l, r) : l \in PeriodLists(n - 1), r \in DocPeriods }

\* the documents: no file, no 'data' key, 'data' an object or null, 'data' an
\* empty list, 'data' a list of period records
RootfiDocuments ==
    { NoFile,
      [exists |-> TRUE, has_data |-> FALSE, data |-> [kind |-> "null", items |-> <<>>]],
      [exists |-> TRUE, has_data |-> TRUE, data |-> [kind |-> "null", items |-> <<>>]],
      [exists |-> TRUE, has_data |-> TRUE, data |-> [kind |-> "object", items |-> <<>>]],
      [exists |-> TRUE, has_data |-> TRUE, data |-> [kind |-> "list", items |-> <<>>]] }
      \cup { [exists |-> TRUE, has_data |-> TRUE,
               data |-> [kind |-> "list", items |-> l]] : l \in PeriodLists(MaxPeriods) }

\* RootfiExtractor.validate, lines 31-54: the message of the error it raises,
\* "" when it raises none
ValidateError(file) ==
    IF ~file.exists THEN "Data file not found"
    ELSE IF ~file.has_data THEN "Missing 'data' key in Rootfi file"
    ELSE IF file.data.kind /= "list" THEN "'data' should be a list of period records"
    ELSE IF file.data.items = <<>> THEN "Empty data array in Rootfi file"
    ELSE LET first_record == file.data.items[1]
         IN IF "period_start" \notin first_record.keys
            THEN "Missing required field: period_start"
            ELSE IF "period_end" \notin first_record.keys
            THEN "Missing required field: period_end"
            ELSE ""

\* RootfiExtractor.validate (lines 29-67): self.data is set and True returned,
\* or the error is logged and raised again
RootfiValidate ==
    /\ ex_src = "rootfi"
    /\ ex_pc = "created"
    /\ LET error == ValidateError(rf_file)
       IN /\ ex_error' = error
          /\ ex_pc' = IF error = "" THEN "validated" ELSE "invalid"
          /\ rf_data' = IF error = "" THEN rf_file.data.items ELSE rf_data
    /\ UNCHANGED <<ex_src, qb_data, ex_out, ex_raised, rf_file>>
    /\ UNCHANGED <<pipeVars, loaderVars, transformVars, agentVars>>

InitValidate ==
    /\ PipelineInit /\ mode = "all" /\ LoaderIdle /\ TransformIdle /\ AgentIdle
    /\ ex_src = "rootfi"
    /\ rf_file \in RootfiDocuments
    /\ rf_data = <<>>
    /\ qb_data = NoQbData
    /\ ex_pc = "created"
    /\ ex_out = <<>>
    /\ ex_raised = FALSE
    /\ ex_error = ""

NextValidate == RootfiValidate \/ RootfiExtract

SpecValidate == InitValidate /\ [][NextValidate]_vars

\* ------------------------------------------- properties of SpecValidate

\* a period record lacks period_start or period_end
LacksPeriod(record) == record.keys /= {"period_start", "period_end"}

\* C28 (as claimed): validate() raises when 'data' is missing, is not a list
\* or is empty, and when the first or the last period record lacks
\* period_start or period_end; it returns True only otherwise.
C28_ValidateChecksFirstAndLast ==
    ex_pc /= "created" =>
      ((ex_pc = "invalid") <=>
         \/ ~rf_file.exists
         \/ ~rf_file.has_data
         \/ rf_file.data.kind /= "list"
         \/ rf_file.data.items = <<>>
         \/ LacksPeriod(rf_file.data.items[1])
         \/ LacksPeriod(rf_file.data.items[Len(rf_file.data.items)]))

\* what holds of C28: validate() raises, with a message that names what is
\* missing, exactly when there is no file, 'data' is missing, is not a list or
\* is empty, or the first period record lacks a period key; the records after
\* the first are not looked at
ValidateChecksFirstOnly ==
    ex_pc /= "created" =>
      /\ (ex_pc = "invalid") <=>
           \/ ~rf_file.exists
           \/ ~rf_file.has_data
           \/ rf_file.data.kind /= "list"
           \/ rf_file.data.items = <<>>
           \/ LacksPeriod(rf_file.data.items[1])
      /\ (ex_pc = "invalid") <=> (ex_error /= "")
      /\ ex_pc /= "invalid" => rf_data = rf_file.data.items

\* a document whose last record lacks a period key was accepted and
\* extracted: the records of that period are not emitted
LastRecordUnchecked ==
    /\ ex_pc = "done"
    /\ Len(rf_data) = 2
    /\ LacksPeriod(rf_data[2])
    /\ Len(ex_out) = 1

\* -------------------------------------------- properties of SpecExtract

\* C15: every record either extractor yields has a non-zero amount, whatever
\* the file holds (zero in any spelling, null, text that is no number).
C15_NoZeroAmountEmitted ==
    \A i \in 1..Len(ex_out) : ex_out[i].amount /= 0

\* the line items of a section with, for each, the account type of the
\* section kind, the name of its nearest enclosing rollup (the section's name
\* at depth 1) as written in the file and as the walk hands it down, and the
\* account_ids of the rollups that enclose it
RECURSIVE NodesOf(_, _, _, _, _)
NodesOf(items, type, parent, parent_stripped, up) ==
    UNION { {[item |-> items[i], type |-> type, parent |-> parent,
              parent_stripped |-> parent_stripped, up |-> up]}
              \cup NodesOf(items[i].line_items, type, items[i].name,
                           Strip(items[i].name), up \cup {items[i].account_id}) :
            i \in 1..Len(items) }

SectionNodes(sections, type) ==
    UNION { NodesOf(sections[i].line_items, type, sections[i].name,
                    sections[i].name, {}) : i \in 1..Len(sections) }

FileNodes ==
    UNION { SectionNodes(rf_data[p].revenue, "revenue")
              \cup SectionNodes(rf_data[p].cost_of_goods_sold, "cogs")
              \cup SectionNodes(rf_data[p].operating_expenses, "expense") :
            p \in 1..Len(rf_data) }

SectionNames ==
    UNION { { rf_data[p].revenue[i].name : i \in 1..Len(rf_data[p].revenue) }
              \cup { rf_data[p].cost_of_goods_sold[i].name :
                       i \in 1..Len(rf_data[p].cost_of_goods_sold) }
              \cup { rf_data[p].operating_expenses[i].name :
                       i \in 1..Len(rf_data[p].operating_expenses) } :
            p \in 1..Len(rf_data) }

RollupNodes == { n \in FileNodes : n.item.line_items /= <<>> }

RootfiDone == ex_src = "rootfi" /\ ex_pc = "done"

\* C13 (as claimed): every emitted record is a childless line item, with the
\* account type of its section kind and parent_account equal to the name of
\* its nearest enclosing rollup (the section's name at depth 1), and no
\* section name or rollup name is the account_name of a record.
C13_EmitsExactlyLeaves ==
    RootfiDone =>
      /\ \A k \in 1..Len(ex_out) :
           \E n \in FileNodes :
             /\ n.item.account_id = ex_out[k].source_account_id
             /\ n.item.line_items = <<>>
             /\ ex_out[k].account_type = n.type
             /\ ex_out[k].parent_account = n.parent
      /\ \A k \in 1..Len(ex_out) :
           ex_out[k].account_name \notin
             SectionNames \cup { n.item.name : n \in RollupNodes }

\* C13 (amended): every emitted record is a childless line item, emitted
\* once, under its name without surrounding blanks, with the account type of
\* its section kind and parent_account equal to the name, without
\* surrounding blanks, of its nearest enclosing rollup, or the section's name
\* as written at depth 1; a line item with children is never emitted.
C13_EmittedRecordsAreLeaves ==
    RootfiDone =>
      /\ \A k \in 1..Len(ex_out) :
           \E n \in FileNodes :
             /\ n.item.account_id = ex_out[k].source_account_id
             /\ n.item.line_items = <<>>
             /\ ex_out[k].account_name = Strip(n.item.name)
             /\ ex_out[k].account_name /= ""
             /\ ex_out[k].account_type = n.type
             /\ ex_out[k].parent_account = n.parent_stripped
      /\ \A n \in RollupNodes : \A k \in 1..Len(ex_out) :
           ex_out[k].source_account_id /= n.item.account_id
      /\ \A j, k \in 1..Len(ex_out) :
           ex_out[j].source_account_id = ex_out[k].source_account_id => j = k

\* C13 witness: a leaf two rollups deep was emitted next to a sibling of its
\* rollup, under a rollup whose name is written with blanks around it
C13_Witness ==
    /\ RootfiDone
    /\ \E j, k \in 1..Len(ex_out) :
         /\ Len(ex_out[k].source_account_id) = 3
         /\ Len(ex_out[j].source_account_id) = 2
         /\ ex_out[k].parent_account = "Payroll"
    /\ \E n \in RollupNodes : n.item.name = " Payroll "

\* the file is internally consistent: every value is a number and every
\* rollup states the sum of its children's values
ConsistentFile ==
    /\ \A n \in FileNodes : n.item.value.kind = "number"
    /\ \A n \in RollupNodes : n.item.value.v = SumValues(n.item.line_items)

RECURSIVE SumAmounts(_)
SumAmounts(records) ==
    IF records = <<>> THEN 0
    ELSE Head(records).amount + SumAmounts(Tail(records))

\* the emitted records that lie under the rollup with this account_id
EmittedUnder(account_id) ==
    LET Under(r) == /\ Len(r.source_account_id) > Len(account_id)
                    /\ SubSeq(r.source_account_id, 1, Len(account_id)) = account_id
    IN SelectSeq(ex_out, Under)

PeriodsDated ==
    \A p \in 1..Len(rf_data) :
      rf_data[p].period_start /= NoDate /\ rf_data[p].period_end /= NoDate

\* C14 (as claimed): for an internally consistent file (with dated periods),
\* the amounts of the records emitted under any rollup sum to the value the
\* rollup states.
C14_LeafSumEqualsRollupValue ==
    (RootfiDone /\ ConsistentFile /\ PeriodsDated) =>
      \A n \in RollupNodes :
        SumAmounts(EmittedUnder(n.item.account_id)) = n.item.value.v

\* the part of C14 that holds: the sums agree when, besides, every line item
\* has a name
LeafSumWhenAllNamed ==
    (RootfiDone /\ ConsistentFile /\ PeriodsDated
       /\ \A n \in FileNodes : Strip(n.item.name) /= "") =>
      \A n \in RollupNodes :
        SumAmounts(EmittedUnder(n.item.account_id)) = n.item.value.v

\* C15 witness: a columnar file with a zero cell and a non-zero cell in one
\* row, of which one record was emitted
C15_Witness ==
    /\ ex_src = "quickbooks" /\ ex_pc = "done"
    /\ Len(ex_out) = 1
    /\ \E i \in 1..Len(qb_data.Rows) :
         /\ Len(qb_data.Rows[i].ColData) = 3
         /\ CellAmount(qb_data.Rows[i].ColData[2]) = 0
         /\ CellAmount(qb_data.Rows[i].ColData[3]) /= 0

\* a hierarchical file with a zero leaf and a non-zero leaf, of which one
\* record was emitted
ZeroLeafDropped ==
    /\ RootfiDone /\ ~ex_raised
    /\ Len(ex_out) = 1
    /\ \E n \in FileNodes :
         /\ n.item.line_items = <<>> /\ n.item.name = "Salaries"
         /\ n.item.value = Number(0) /\ n.up /= {}

\* ---- the columnar extractor against the rows of the file

QbDone == ex_src = "quickbooks" /\ ex_pc = "done"

\* the rows of the report in document order, each with the Sections that
\* enclose it (its own included) and the Data rows that enclose it, outermost
\* first
RECURSIVE QbWalk(_, _, _)
QbWalk(rows, sections, datas) ==
    IF rows = <<>> THEN <<>>
    ELSE LET row == Head(rows)
             secs == IF row.type = "Section" THEN Append(sections, row)
                     ELSE sections
             below == QbWalk(row.Rows, secs,
                             IF row.type = "Data" THEN Append(datas, row)
                             ELSE datas)
         IN <<[row |-> row, sections |-> secs, datas |-> datas]>>
              \o below \o QbWalk(Tail(rows), sections, datas)

\* the account type a group label stands for ("" when it stands for none)
GroupType ==
    [g \in QbGroups |->
       CASE g \in {"Income", "Other Income"} -> "revenue"
         [] g = "Cost of Goods Sold" -> "cogs"
         [] g = "Expenses" -> "expense"
         [] OTHER -> ""]

\* the type of the nearest enclosing Section whose label stands for a type
NodeType(node) ==
    LET matching == { k \in 1..Len(node.sections) :
                        GroupType[node.sections[k].group] /= "" }
    IN IF matching = {} THEN "other"
       ELSE GroupType[node.sections[CHOOSE k \in matching :
                                      \A j \in matching : j <= k].group]

\* the account name of a Data row: its first cell without surrounding blanks
RowName(row) == Strip(row.ColData[1].s)

\* the account name of the nearest enclosing Data row ("" when there is none)
NearestDataName(node) ==
    IF node.datas = <<>> THEN "" ELSE RowName(node.datas[Len(node.datas)])

\* the account name of the nearest enclosing Data row that has a name
NearestNamedData(node) ==
    LET named == { k \in 1..Len(node.datas) : RowName(node.datas[k]) /= "" }
    IN IF named = {} THEN ""
       ELSE RowName(node.datas[CHOOSE k \in named : \A j \in named : j <= k])

\* the number an amount cell writes, in hundredths, "," and "$" left out;
\* 0 for a cell that writes zero or no number
AmountWritten ==
    [c \in AmountCells |->
       CASE c = Cell("1,200") -> 120000
         [] c = Cell("$5") -> 500
         [] c = Cell("-3") -> 0 - 300
         [] c = Cell("12.50") -> 1250
         [] OTHER -> 0]

\* the Money columns of the report, in order
MoneyColumns ==
    LET IsMoney(col) == col.ColType = "Money"
    IN SelectSeq(qb_data.Columns, IsMoney)

\* the (row, column) pairs of one row that have a non-zero amount, from
\* column i on
RECURSIVE NodeCells(_, _)
NodeCells(node, i) ==
    IF i > Len(MoneyColumns) THEN <<>>
    ELSE (IF /\ node.row.type = "Data"
             /\ RowName(node.row) /= ""
             /\ i + 1 <= Len(node.row.ColData)
             /\ AmountWritten[node.row.ColData[i + 1]] /= 0
          THEN <<[node |-> node, column |-> MoneyColumns[i],
                  amount |-> AmountWritten[node.row.ColData[i + 1]]]>>
          ELSE <<>>)
           \o NodeCells(node, i + 1)

RECURSIVE AllCells(_)
AllCells(nodes) ==
    IF nodes = <<>> THEN <<>>
    ELSE NodeCells(Head(nodes), 1) \o AllCells(Tail(nodes))

\* the non-zero (row, column) pairs of the file, in document order
QbCells == AllCells(QbWalk(qb_data.Rows, <<>>, <<>>))

IsLeafCell(cell) == cell.node.row.Rows = <<>>

\* C25 (as claimed): the records emitted are those of the rows without child
\* rows: a row that has child rows yields no record.
C25_OnlyLeafRowsEmit ==
    QbDone =>
      LET leaves == SelectSeq(QbCells, IsLeafCell)
      IN /\ Len(ex_out) = Len(leaves)
         /\ \A k \in 1..Len(ex_out) :
              /\ ex_out[k].account_name = RowName(leaves[k].node.row)
              /\ ex_out[k].amount = leaves[k].amount

\* C26 (as claimed): the account_type of every record is the type of the
\* nearest enclosing Section whose group label stands for a type, 'other'
\* when there is none, and its parent_account is the account name of the
\* nearest enclosing Data row, whatever came in earlier branches.
C26_TypeAndParentFromAncestors ==
    QbDone =>
      /\ Len(ex_out) = Len(QbCells)
      /\ \A k \in 1..Len(ex_out) :
           /\ ex_out[k].account_type = NodeType(QbCells[k].node)
           /\ ex_out[k].parent_account = NearestDataName(QbCells[k].node)

\* C26 (amended): the same, with parent_account the account name of the
\* nearest enclosing Data row that has a non-empty name (None when there is
\* none): a Data row without a name hands down the parent it was given.
C26_TypeAndNamedParentFromAncestors ==
    QbDone =>
      /\ Len(ex_out) = Len(QbCells)
      /\ \A k \in 1..Len(ex_out) :
           /\ ex_out[k].account_type = NodeType(QbCells[k].node)
           /\ ex_out[k].parent_account = NearestNamedData(QbCells[k].node)

\* C26 witness: a file with two branches; the records of the first are
\* revenue under 'Payroll', and the last record, of a row of the second
\* branch that no Section or Data row encloses, is 'other' with no parent
C26_Witness ==
    /\ QbDone
    /\ Len(qb_data.Rows) = 2
    /\ Len(ex_out) = 3
    /\ ex_out[2].account_type = "revenue" /\ ex_out[2].parent_account = "Payroll"
    /\ ex_out[3].account_type = "other" /\ ex_out[3].parent_account = ""

\* C27: the records emitted are, in document order, one per Data row with a
\* non-empty name and Money column i such that the row has a cell at position
\* i + 1 that writes a non-zero number, with that number as amount, the row's
\* name as account_name and the column's StartDate / EndDate as period.
C27_OneRecordPerNonZeroCell ==
    QbDone =>
      /\ Len(ex_out) = Len(QbCells)
      /\ \A k \in 1..Len(ex_out) :
           /\ ex_out[k].account_name = RowName(QbCells[k].node.row)
           /\ ex_out[k].amount = QbCells[k].amount
           /\ ex_out[k].period_start = QbCells[k].column.StartDate
           /\ ex_out[k].period_end = QbCells[k].column.EndDate
           /\ \E i \in 1..Len(qb_data.Columns) :
                /\ qb_data.Columns[i].ColType = "Money"
                /\ qb_data.Columns[i].StartDate = ex_out[k].period_start
                /\ qb_data.Columns[i].EndDate = ex_out[k].period_end

\* C27 witness: a row with the cells "0" and "$5" under two monthly columns
\* gave one record, of the second month, with amount 5.00
C27_Witness ==
    /\ QbDone
    /\ Len(qb_data.Rows) = 1
    /\ qb_data.Rows[1].type = "Data"
    /\ qb_data.Rows[1].ColData = <<Cell("Sales"), Cell("0"), Cell("$5")>>
    /\ Len(ex_out) = 1
    /\ ex_out[1].amount = 500
    /\ ex_out[1].period_start = "2024-02-01"

\* ====================================== FinancialTransformer, CategoryMapper
\* SpecTransform: one FinancialTransformer instance; transform_account is
\* called some number of times, and transform_transaction,
\* _generate_account_id and map_category are called on the records below.

\* raw records as the extractors yield them (names stripped and not empty,
\* amounts not zero), over period texts of every kind
TransformPeriods ==
    { <<"2024-01-01", "2024-01-31">>,
      <<"2024-01-01T00:00:00", "2024-01-31T23:59:59.000Z">>,
      <<"2024-2-1", "2024-02-29">>,
      <<"2024-01-01Tnoon", "2024-01-31">>,
      <<"2024-01-31", "2024-01-01">>,
      <<"2024-01-31", "2024-01-31">>,
      <<"2024-01-01", "2024-02-30">>,
      <<"2024-01-01", "2024-01-31 00:00:00">>,
      <<"2024-01-01", "31/01/2024">>,
      <<"n/a", "2024-01-31">>,
      <<"", "2024-01-31">>,
      <<"2024-01-01", "">> }

RawRecord(name, type, parent, source, period, amount, currency) ==
    [id |-> 1, account_name |-> name, account_type |-> type,
     parent_account |-> parent, amount |-> amount, currency |-> currency,
     source_system |-> source, period_start |-> period[1],
     period_end |-> period[2]]

TransformInputs ==
    { RawRecord(a.name, a.type, a.parent, "rootfi", p, money[1], money[2]) :
        a \in RawAccounts \cup {[name |-> "SALES", type |-> "revenue",
                                  parent |-> "", amount |-> 500]},
        p \in TransformPeriods,
        money \in {<<500, "USD">>, <<-20, "EUR">>} }

\* arguments of _generate_account_id
IdInputs ==
    { RawRecord(n, t, "", src, <<"", "">>, 0, "") :
        n \in {"Sales", "SALES", "Rent"}, t \in {"revenue", "Revenue", "expense"},
        src \in {"rootfi", "Rootfi", "quickbooks"} }

\* arguments of map_category: account_name, account_type and the hint
\* (parent_account; "" is None)
CategoryInputs ==
    { RawRecord(n, t, h, "", <<"", "">>, 0, "") :
        n \in {"Rent", "Office Rent", "Facilities", "MARKETING", "Sales Commission",
                "labor", "Misc", "Petty Cash"},
        t \in {"revenue", "cogs", "expense"},
        h \in {"", "Payroll", "General"} }

\* raw account data for transform_account: names as any caller writes them
AccountInputs ==
    { RawRecord(n, t, "", "rootfi", <<"", "">>, 0, "") :
        n \in {"Sales", "SALES", " Sales"}, t \in {"revenue"} }
      \cup { RawRecord("Sales", "expense", "", "rootfi", <<"", "">>, 0, "") }

\* a result that is no record: None, or nothing because the call raised
NoRecord ==
    [id |-> 0, account_id |-> "", account_name |-> "", account_type |-> "",
     account_category |-> "", parent_account |-> "", source_system |-> "",
     period_start |-> 0, period_end |-> 0, amount |-> 0, currency |-> ""]

CallOf(fn, raw, raised, rec) ==
    [fn |-> fn, raw |-> raw, raised |-> raised, rec |-> rec]

\* the outcome of transform_transaction on each raw record
TransformTransactionOutcome ==
    [raw \in TransformInputs |->
       IF TransformRaises(raw)
       THEN CallOf("transform_transaction", raw, "ValueError", NoRecord)
       ELSE CallOf("transform_transaction", raw, "none", TransformTransaction(raw))]

\* transform_transaction on one raw record
TransformTransactionCall ==
    /\ tr_last = <<>>
    /\ \E raw \in TransformInputs : tr_last' = <<TransformTransactionOutcome[raw]>>
    /\ UNCHANGED <<tr_cache, tr_calls>>
    /\ UNCHANGED <<pipeVars, loaderVars, extractVars, agentVars>>

\* the outcome of _generate_account_id on each triple
GenerateAccountIdOutcome ==
    [raw \in IdInputs |->
       CallOf("_generate_account_id", raw, "none",
              [NoRecord EXCEPT !.account_id =
                 GenerateAccountId(raw.account_name, raw.account_type,
                                   raw.source_system)])]

\* _generate_account_id on one triple
GenerateAccountIdCall ==
    /\ tr_last = <<>>
    /\ \E raw \in IdInputs : tr_last' = <<GenerateAccountIdOutcome[raw]>>
    /\ UNCHANGED <<tr_cache, tr_calls>>
    /\ UNCHANGED <<pipeVars, loaderVars, extractVars, agentVars>>

\* the outcome of map_category on each name, type and hint
MapCategoryOutcome ==
    [raw \in CategoryInputs |->
       CallOf("map_category", raw, "none",
              [NoRecord EXCEPT !.account_category =
                 MapCategory(raw.account_name, raw.account_type,
                             raw.parent_account)])]

\* map_category on one name, type and hint
MapCategoryCall ==
    /\ tr_last = <<>>
    /\ \E raw \in CategoryInputs : tr_last' = <<MapCategoryOutcome[raw]>>
    /\ UNCHANGED <<tr_cache, tr_calls>>
    /\ UNCHANGED <<pipeVars, loaderVars, extractVars, agentVars>>

\* (mutant) the id is not kept in account_cache
CacheUnchanged(cache, account_id) == cache

\* line 140: self.account_cache[cache_key] = account_id
CacheAfter(cache, account_id) == cache \cup {account_id}

\* transform_account's cache_key for each raw account
AccountCacheKey ==
    [raw \in AccountInputs |->
       GenerateAccountId(Strip(raw.account_name), raw.account_type,
                         raw.source_system)]

\* transform_account's result when the id is not cached
TransformAccount(raw) ==
    [NoRecord EXCEPT
       !.account_id = AccountCacheKey[raw],
       !.account_name = Strip(raw.account_name),
       !.account_type = raw.account_type,
       !.source_system = raw.source_system]

\* FinancialTransformer.transform_account (raised "None": it returned None)
TransformAccountCall ==
    /\ tr_last = <<>>
    /\ Len(tr_calls) < MaxAccountCalls
    /\ \E raw \in AccountInputs :
         LET account_id == AccountCacheKey[raw]
         IN IF account_id \in tr_cache
            THEN /\ tr_calls' = Append(tr_calls,
                       CallOf("transform_account", raw, "None", NoRecord))
                 /\ UNCHANGED tr_cache
            ELSE /\ tr_calls' = Append(tr_calls,
                       CallOf("transform_account", raw, "none",
                              TransformAccount(raw)))
                 /\ tr_cache' = CacheAfter(tr_cache, account_id)
    /\ UNCHANGED tr_last
    /\ UNCHANGED <<pipeVars, loaderVars, extractVars, agentVars>>

\* the caller has taken the value (or the exception) of the call: the
\* transformer is called from one thread, one call at a time
TransformReturn ==
    /\ tr_last /= <<>>
    /\ tr_last' = <<>>
    /\ UNCHANGED <<tr_cache, tr_calls>>
    /\ UNCHANGED <<pipeVars, loaderVars, extractVars, agentVars>>

InitTransform ==
    /\ PipelineInit /\ mode = "all"
    /\ LoaderIdle /\ ExtractIdle /\ TransformIdle /\ AgentIdle

NextTransform ==
    \/ TransformTransactionCall
    \/ GenerateAccountIdCall
    \/ MapCategoryCall
    \/ TransformAccountCall
    \/ TransformReturn

SpecTransform == InitTransform /\ [][NextTransform]_vars

\* ------------------------------------------ properties of SpecTransform

LastIs(fn) == tr_last /= <<>> /\ tr_last[1].fn = fn

\* the categories of the table, by position, that have a keyword occurring,
\* letter case aside, in text
CategoriesIn(text) ==
    { i \in 1..Len(CATEGORY_MAPPINGS) :
        \E k \in 1..Len(CATEGORY_MAPPINGS[i].keywords) :
          Contains(Lower(text), Lower(CATEGORY_MAPPINGS[i].keywords[k])) }

FirstOf(positions) ==
    CATEGORY_MAPPINGS[CHOOSE i \in positions : \A j \in positions : i <= j].category

\* the decision procedure of C16 (the name and the hint are joined by a blank)
DecidedCategory(account_name, account_type, hint) ==
    IF account_type = "revenue" THEN "Revenue"
    ELSE IF account_type = "cogs" THEN "Cost of Goods Sold"
    ELSE IF CategoriesIn(account_name) /= {} THEN FirstOf(CategoriesIn(account_name))
    ELSE IF CategoriesIn(account_name \o " " \o hint) /= {}
    THEN FirstOf(CategoriesIn(account_name \o " " \o hint))
    ELSE "Other Expenses"

DecidedCategoryOf ==
    [raw \in CategoryInputs |->
       DecidedCategory(raw.account_name, raw.account_type, raw.parent_account)]

\* C16: map_category returns, for every name, type and hint, the category of
\* the decision procedure: "Revenue" / "Cost of Goods Sold" by type, else the
\* first category in table order with a keyword in the name, else the first
\* with a keyword in the name joined with the hint, else "Other Expenses".
C16_MapCategoryDecision ==
    LastIs("map_category") =>
      tr_last[1].rec.account_category = DecidedCategoryOf[tr_last[1].raw]

\* C16 witness: the name matches a category that comes later in the table than
\* the category the hint matches, and the name's category was returned
C16_Witness ==
    /\ LastIs("map_category")
    /\ tr_last[1].raw.account_type = "expense"
    /\ tr_last[1].raw.account_name = "Rent"
    /\ tr_last[1].raw.parent_account = "Payroll"
    /\ tr_last[1].rec.account_category = "Facilities & Operations"

\* the triples that differ from the arguments of the last call in exactly
\* one of the three inputs
OneInputChanged(raw) ==
    { o \in IdInputs :
        Cardinality({ f \in {"n", "t", "s"} :
            \/ f = "n" /\ o.account_name /= raw.account_name
            \/ f = "t" /\ o.account_type /= raw.account_type
            \/ f = "s" /\ o.source_system /= raw.source_system }) = 1 }

IdOf(raw) == GenerateAccountIdOutcome[raw].rec.account_id

\* C17 (as claimed): changing any one of account_name, account_type,
\* source_system, the other two kept, changes the id.
C17_OneInputChangesId ==
    LastIs("_generate_account_id") =>
      \A o \in OneInputChanged(tr_last[1].raw) :
        IdOf(o) /= tr_last[1].rec.account_id

SameButCase(a, b) == Lower(a) = Lower(b)

\* C17 (amended): the id is a function of the three inputs; changing one of
\* them, the other two kept, changes the id exactly when the new value
\* differs from the old one in more than letter case.
C17_OneInputChangesIdButCase ==
    LastIs("_generate_account_id") =>
      /\ IdOf(tr_last[1].raw) = tr_last[1].rec.account_id
      /\ \A o \in OneInputChanged(tr_last[1].raw) :
           (IdOf(o) = tr_last[1].rec.account_id) <=>
             /\ SameButCase(o.account_name, tr_last[1].raw.account_name)
             /\ SameButCase(o.account_type, tr_last[1].raw.account_type)
             /\ SameButCase(o.source_system, tr_last[1].raw.source_system)

\* C17 witness: an id was generated for "Sales"; "SALES" and "Rent" are among
\* the one-input changes
C17_Witness ==
    /\ LastIs("_generate_account_id")
    /\ tr_last[1].raw.account_name = "Sales"
    /\ \E o1, o2 \in OneInputChanged(tr_last[1].raw) :
         o1.account_name = "SALES" /\ o2.account_name = "Rent"

C19_PeriodOrderedAmountNonZero ==
    (LastIs("transform_transaction") /\ tr_last[1].raised = "none") =>
      /\ tr_last[1].rec.period_start <= tr_last[1].rec.period_end
      /\ tr_last[1].rec.amount /= 0

\* the part of C19 that holds: the amount of a returned record is not zero
\* (the extractors yield no zero amount and the amount is passed on)
TransformedAmountNonZero ==
    (LastIs("transform_transaction") /\ tr_last[1].raised = "none") =>
      tr_last[1].rec.amount /= 0

SameIdentity(a, b) ==
    /\ a.source_system = b.source_system
    /\ a.account_type = b.account_type
    /\ a.account_name = b.account_name

\* C20 (as claimed): a transform_account call returns the account when no
\* earlier call on the instance had the same (source_system, account_type,
\* account_name), and None when one had.
C20_FirstCallReturnsAccount ==
    \A i \in 1..Len(tr_calls) :
      (tr_calls[i].raised = "None") <=>
        \E j \in 1..(i - 1) : SameIdentity(tr_calls[j].raw, tr_calls[i].raw)

\* the identity of a raw account after normalisation
NormalizedIdentity ==
    [raw \in AccountInputs |->
       <<Lower(raw.source_system), Lower(raw.account_type),
         Lower(Strip(raw.account_name))>>]

SameIdentityNormalized(a, b) == NormalizedIdentity[a] = NormalizedIdentity[b]

\* C20 (amended): the same, with the identity taken after normalisation: the
\* name without surrounding blanks, and the three parts compared without
\* regard to letter case; the account returned carries the stripped name.
C20_FirstCallReturnsAccountNormalized ==
    \A i \in 1..Len(tr_calls) :
      /\ (tr_calls[i].raised = "None") <=>
           \E j \in 1..(i - 1) :
             SameIdentityNormalized(tr_calls[j].raw, tr_calls[i].raw)
      /\ tr_calls[i].raised = "none" =>
           /\ tr_calls[i].rec.account_name = Strip(tr_calls[i].raw.account_name)
           /\ tr_calls[i].rec.account_type = tr_calls[i].raw.account_type
           /\ tr_calls[i].rec.source_system = tr_calls[i].raw.source_system

\* C20 witness: an account, then another identity, then the first again,
\* which returned None
C20_Witness ==
    /\ Len(tr_calls) = 3
    /\ SameIdentity(tr_calls[1].raw, tr_calls[3].raw)
    /\ ~SameIdentityNormalized(tr_calls[1].raw, tr_calls[2].raw)
    /\ tr_calls[1].raised = "none" /\ tr_calls[2].raised = "none"
    /\ tr_calls[3].raised = "None"

\* ------------------------------------------------------------ agent graph
\* src/backend/src/agent: the LangGraph workflow.  Every node returns a
\* Command(goto, update); the graph merges the update into the state and
\* runs the node named by goto.  SpecAgent keeps the fields of
\* FinancialAgentState that the SQL nodes read back (question, sql,
\* checked_sql, query_error, retries); status, messages, tables, schema and
\* result are written and never read by a node's routing.

\* the question argument of the model's query_financial_database tool call
AgentQuestions == {"", " ", "top accounts"}

\* the queries the writer, the checker and the repairer answer with
AgentQueries ==
    { "SELECT a FROM t",
      "SELECT joined FROM t",
      "SELECT a FROM t JOIN u ON x" }

\* str(e) of the exceptions query_tool and get_cached_schema raise
AgentErrors == {"relation does not exist"}

\* \w of the regular expressions, on lower-cased text
WordChars == LowerLetters \o "0123456789_"

\* c is one word character; the empty string stands for the text's edge
IsWordChar(c) == c /= "" /\ Contains(WordChars, c)

\* the character at position i, "" beyond the text's edges
CharAt(text, i) == IF i \in 1..Len(text) THEN SubSeq(text, i, i) ELSE ""

\* text[i:] starts with w
StartsAt(text, i, w) ==
    i >= 1 /\ i + Len(w) - 1 <= Len(text) /\ SubSeq(text, i, i + Len(w) - 1) = w

\* \bw\b matches at position i of text (w made of word characters)
WordAt(text, i, w) ==
    /\ StartsAt(text, i, w)
    /\ ~IsWordChar(CharAt(text, i - 1))
    /\ ~IsWordChar(CharAt(text, i + Len(w)))

\* the position after the blanks that start at position i: \s* from i on
RECURSIVE AfterBlanks(_, _)
AfterBlanks(text, i) ==
    IF i <= Len(text) /\ CharAt(text, i) = " "
    THEN AfterBlanks(text, i + 1) ELSE i

\* is_simple_query on one query
SimpleQuery(sql) ==
    LET sql_lower == Lower(sql)
        at == 1..Len(sql_lower)
        \* r"\(\s*select"
        subselect ==
            \E i \in at : /\ StartsAt(sql_lower, i, "(")
                          /\ StartsAt(sql_lower, AfterBlanks(sql_lower, i + 1),
                                      "select")
        \* re.findall(r"\bfrom\b")
        froms == {i \in at : WordAt(sql_lower, i, "from")}
        word(w) == \E i \in at : WordAt(sql_lower, i, w)
        \* r"\bcase\s+when\b"
        case_when ==
            \E i \in at :
               LET j == AfterBlanks(sql_lower, i + 4)
               IN /\ StartsAt(sql_lower, i, "case")
                  /\ ~IsWordChar(CharAt(sql_lower, i - 1))
                  /\ j > i + 4
                  /\ StartsAt(sql_lower, j, "when")
                  /\ ~IsWordChar(CharAt(sql_lower, j + 4))
        \* r"group\s+by\s+.*having"
        group_having ==
            \E i \in at :
               LET j == AfterBlanks(sql_lower, i + 5)
                   k == AfterBlanks(sql_lower, j + 2)
               IN /\ StartsAt(sql_lower, i, "group")
                  /\ j > i + 5
                  /\ StartsAt(sql_lower, j, "by")
                  /\ k > j + 2
                  /\ \E h \in k..Len(sql_lower) :
                        StartsAt(sql_lower, h, "having")
    IN IF subselect THEN FALSE
       ELSE IF Cardinality(froms) > 1 THEN FALSE
       ELSE IF word("join") \/ word("union") \/ word("with")
               \/ case_when \/ group_having THEN FALSE
       ELSE TRUE

\* is_simple_query on the queries of the model
is_simple_query == [sql \in AgentQueries |-> SimpleQuery(sql)]

\* the graph runs node next, for the question in hand
Goto(next) ==
    /\ ag_node' = next
    /\ ag_entered' = Append(ag_entered, next)

\* `if retries < 2` of exec_query: a failed execution may still be repaired
MayRepairUpToTwo(retries) == retries <= 2

MayRepair(retries) == retries < 2

\* `state.get("checked_sql") or state["sql"]`
SqlToRun(state) ==
    IF state.checked_sql /= "" THEN state.checked_sql ELSE state.sql

\* chat_node: the model answers with a query_financial_database tool call,
\* which starts a question, or with anything else, which ends the turn
chat_node ==
    /\ ag_node = "chat_node"
    /\ \/ /\ ag_questions < MaxQuestions
          /\ \E question \in AgentQuestions :
                ag_state' = [ag_state EXCEPT !.question = question,
                                             !.checked_sql = ""]
          /\ ag_node' = "list_tables"
          /\ ag_entered' = <<"list_tables">>
          /\ ag_questions' = ag_questions + 1
       \/ /\ ag_node' = "__end__"
          /\ UNCHANGED <<ag_state, ag_entered, ag_questions>>
    /\ UNCHANGED <<pipeVars, loaderVars, extractVars, transformVars>>

\* list_tables: only tables, dialect, top_k and status are updated
list_tables ==
    /\ ag_node = "list_tables"
    /\ Goto("fetch_schema")
    /\ UNCHANGED <<ag_state, ag_questions>>
    /\ UNCHANGED <<pipeVars, loaderVars, extractVars, transformVars>>

\* fetch_schema: the schema is fetched, or fetching raises and the message
\* is left in query_error; write_query follows either way
fetch_schema ==
    /\ ag_node = "fetch_schema"
    /\ \/ UNCHANGED ag_state
       \/ \E e \in AgentErrors :
             ag_state' = [ag_state EXCEPT !.query_error = e]
    /\ Goto("write_query")
    /\ UNCHANGED ag_questions
    /\ UNCHANGED <<pipeVars, loaderVars, extractVars, transformVars>>

\* write_query: no question, or the writer raises: back to chat_node;
\* otherwise the query goes to exec_query when simple, to check_query if not
write_query ==
    /\ ag_node = "write_query"
    /\ IF Strip(ag_state.question) = ""
       THEN Goto("chat_node") /\ UNCHANGED ag_state
       ELSE \/ \E sql_query \in AgentQueries :
                 /\ ag_state' = [ag_state EXCEPT !.sql = sql_query]
                 /\ IF is_simple_query[sql_query]
                    THEN Goto("exec_query") ELSE Goto("check_query")
            \/ Goto("chat_node") /\ UNCHANGED ag_state
    /\ UNCHANGED ag_questions
    /\ UNCHANGED <<pipeVars, loaderVars, extractVars, transformVars>>

\* check_query: the checker's query, or on an exception the written one,
\* becomes checked_sql
check_query ==
    /\ ag_node = "check_query"
    /\ \/ \E sql_query \in AgentQueries :
             ag_state' = [ag_state EXCEPT !.checked_sql = sql_query]
       \/ ag_state' = [ag_state EXCEPT !.checked_sql = ag_state.sql]
    /\ Goto("exec_query")
    /\ UNCHANGED ag_questions
    /\ UNCHANGED <<pipeVars, loaderVars, extractVars, transformVars>>

\* exec_query: the query runs and the result goes to chat_node; or it
\* raises, and then repair_query follows while MayRepair(retries), with
\* retries counted up, and chat_node follows otherwise
exec_query ==
    /\ ag_node = "exec_query"
    /\ LET sql == SqlToRun(ag_state)
       IN \/ /\ ag_state' = [ag_state EXCEPT !.sql = sql]
             /\ Goto("chat_node")
          \/ \E error_msg \in AgentErrors :
               LET retries == ag_state.retries
               IN IF MayRepair(retries)
                  THEN /\ ag_state' = [ag_state EXCEPT
                                         !.query_error = error_msg,
                                         !.retries = retries + 1,
                                         !.checked_sql = sql]
                       /\ Goto("repair_query")
                  ELSE /\ UNCHANGED ag_state
                       /\ Goto("chat_node")
    /\ UNCHANGED ag_questions
    /\ UNCHANGED <<pipeVars, loaderVars, extractVars, transformVars>>

\* repair_query: the repaired query becomes checked_sql and query_error is
\* cleared; when the repair raises nothing is updated; exec_query follows
repair_query ==
    /\ ag_node = "repair_query"
    /\ \/ \E sql_query \in AgentQueries :
             ag_state' = [ag_state EXCEPT !.checked_sql = sql_query,
                                          !.query_error = ""]
       \/ UNCHANGED ag_state
    /\ Goto("exec_query")
    /\ UNCHANGED ag_questions
    /\ UNCHANGED <<pipeVars, loaderVars, extractVars, transformVars>>

\* the user's next message on the thread: the graph is entered at chat_node
\* with the state the MemorySaver checkpointer kept
NextMessage ==
    /\ ag_node = "__end__"
    /\ ag_node' = "chat_node"
    /\ UNCHANGED <<ag_state, ag_entered, ag_questions>>
    /\ UNCHANGED <<pipeVars, loaderVars, extractVars, transformVars>>

\* a new thread, entered at chat_node with the state's defaults
InitAgent ==
    /\ PipelineInit /\ mode = "all"
    /\ LoaderIdle /\ ExtractIdle /\ TransformIdle
    /\ ag_node = "chat_node"
    /\ ag_state = AgentDefaults
    /\ ag_entered = <<>>
    /\ ag_questions = 0

\* one node of the graph runs
NodeStep ==
    \/ chat_node
    \/ list_tables
    \/ fetch_schema
    \/ write_query
    \/ check_query
    \/ exec_query
    \/ repair_query

NextAgent == NodeStep \/ NextMessage

SpecAgent == InitAgent /\ [][NextAgent]_vars

\* the graph runs the node a Command names: every node that is reached runs
\* and returns (the model and the database answer or raise)
SpecAgentLive == SpecAgent /\ WF_vars(NodeStep)

\* ------------------------------------------- properties of SpecAgent

\* how many times node was entered for the question in hand
Entered(node) ==
    Cardinality({i \in 1..Len(ag_entered) : ag_entered[i] = node})

\* C30: in the SQL sub-flow every path from write_query gets back to
\* chat_node after finitely many steps, whatever fails: exec_query goes to
\* repair_query only while retries < 2 and then counts retries up by one,
\* no node lowers or resets retries, and so for one question repair_query
\* is entered at most twice and exec_query at most three times.
C30_SqlFlowReturnsToChat ==
    /\ [](Entered("repair_query") <= 2 /\ Entered("exec_query") <= 3)
    /\ [][/\ ag_state'.retries >= ag_state.retries
          /\ (ag_node = "exec_query" /\ ag_node' = "repair_query")
                => /\ ag_state.retries < 2
                   /\ ag_state'.retries = ag_state.retries + 1
          /\ ag_node /= "exec_query"
                => ag_state'.retries = ag_state.retries]_vars
    /\ (ag_node = "write_query") ~> (ag_node = "chat_node")

\* every execution failed and every repair raised: two repairs, three
\* executions, and the question is back at chat_node
C30_Witness ==
    /\ ag_node = "chat_node"
    /\ ag_state.retries = 2
    /\ ag_state.query_error /= ""
    /\ Len(ag_entered) >= 6
    /\ SubSeq(ag_entered, Len(ag_entered) - 5, Len(ag_entered)) =
         <<"exec_query", "repair_query", "exec_query", "repair_query",
           "exec_query", "chat_node">>

====
